---- MODULE Spec2Model ----
(***************************************************************************)
(* A model of the regulatory-document ingestion and chunking pipeline of   *)
(* backend/alf (improved_processor.py, txt_processor.py).                  *)
(*                                                                         *)
(* Strings are modelled by what the code reads from them.  A text is a     *)
(* non-empty sequence of lines (the result of str.split('\n'); the empty   *)
(* string is the one-line text <<Blank>>).  A line is a record             *)
(*   txt   : the identity of the line's text,                              *)
(*   kind  : "blank" (line.strip() is empty), "list" (the chunker's        *)
(*           list_pattern matches) or "text" (anything else),              *)
(*   words : len(line.split()),                                            *)
(*   tail  : the words after the last sentence break ([.!?] followed by    *)
(*           whitespace) inside the line; tail = words when there is none, *)
(*   end   : the class of the last character: "." , "!" (for ! and ?),     *)
(*           ";" (for ; : ) ]) or "none".                                  *)
(* Lines carry no leading or trailing whitespace.  A title is the sequence *)
(* of its words.                                                           *)
(***************************************************************************)
EXTENDS Integers, Sequences, FiniteSets, TLC

VARIABLES
    pc,               \* the position of the driver of the operation under study
    section,          \* chunk_section: the Section passed in
    chunks,           \* chunk_section: the list of Chunks returned
    sections,         \* _merge_small_sections: the list of Sections passed in
    merged_sections,  \* _merge_small_sections: the list of Sections returned
    deduplicator,     \* which deduplicator the batch driver calls
    all_chunks,       \* the chunks of a batch, before deduplication
    unique_chunks,    \* the successive results of the deduplicator
    filename,         \* parse_document: the file name passed in
    file_content,     \* parse_document: the document text passed in
    doc_type,         \* parse_document: the detected DocumentType
    patterns,         \* parse_document: the section patterns selected
    runs,             \* process_document: the results of the calls so far
    created_sections, \* parse_document: every Section object made in the pass
    exception,        \* the exception an operation raised, None when it returned
    report,           \* validate_chunks: the QualityReport returned
    verdict,          \* passes_production_threshold: (passed, issues)
    directory,        \* process_directory: the files input_path.glob('*.txt') yields
    next_file,        \* process_directory: the position of the loop in that listing
    output_file,      \* process_directory: what json.dump wrote, None before it
    heap,             \* process_document: the objects made so far, by identity
    handed,           \* process_document: the objects one phase hands to the next
    chunks_file,      \* rechunk: the chunks stored in chunks_with_embeddings.json
    backup_file,      \* rechunk: the chunks stored in the .bak file, None before
    raw_dir,          \* rechunk: the content of each target file, <<>> if missing
    api_key,          \* rechunk: whether OPENAI_API_KEY is set
    other_chunks,     \* rechunk: the chunks kept
    new_chunks,       \* rechunk: the chunk dicts made from the target files
    call,             \* ChunkSplitter: the method entered and its arguments
    start,            \* split_by_characters: the start index of the loop
    split_chunks      \* ChunkSplitter: the list chunks built, then returned

chunkerVars == <<section, chunks>>
mergerVars == <<sections, merged_sections>>
dedupVars == <<deduplicator, all_chunks, unique_chunks>>
parserVars == <<filename, file_content, doc_type, patterns>>
validatorVars == <<report, verdict>>
batchVars == <<directory, next_file, output_file>>
stageVars == <<heap, handed>>
rechunkVars == <<chunks_file, backup_file, raw_dir, api_key, other_chunks, new_chunks>>
splitterVars == <<call, start, split_chunks>>
otherVars == <<batchVars, stageVars, rechunkVars, splitterVars>>
extraVars == <<created_sections, exception, validatorVars, otherVars>>
vars == <<pc, chunkerVars, mergerVars, dedupVars, parserVars, runs, extraVars>>

None == "None"

(***************************************************************************)
(* ChunkConfig                                                             *)
(***************************************************************************)
MIN_CHUNK_WORDS == 400
MAX_CHUNK_WORDS == 800
OVERLAP_WORDS == 50
ABSOLUTE_MIN_WORDS == 150
ABSOLUTE_MAX_WORDS == 1200

(***************************************************************************)
(* Bounds of the model                                                     *)
(***************************************************************************)
MaxLines == 4
MaxSections == 3
MaxBatch == 3
BlockChars == 60
MaxNameWords == 3
MaxContentLines == 2
MaxDocLines == 3
MaxJsonLines == 4
MaxGood == 9
MaxOther == 2

(***************************************************************************)
(* Text helpers                                                            *)
(***************************************************************************)
Blank == [txt |-> "", kind |-> "blank", words |-> 0, tail |-> 0, end |-> "none"]

IsBlank(line) == line.kind = "blank"

RECURSIVE SumWords(_)
SumWords(lines) ==
    IF lines = <<>> THEN 0 ELSE Head(lines).words + SumWords(Tail(lines))

\* len(text.split())
WordCount(text) == SumWords(text)

RECURSIVE Concat(_)
Concat(texts) ==
    IF texts = <<>> THEN <<>> ELSE Head(texts) \o Concat(Tail(texts))

\* '\n\n'.join(pieces): one empty line between two consecutive pieces;
\* the join of no piece is the empty string
RECURSIVE JoinParagraphs(_)
JoinParagraphs(texts) ==
    IF texts = <<>> THEN <<Blank>>
    ELSE IF Len(texts) = 1 THEN texts[1]
    ELSE texts[1] \o <<Blank>> \o JoinParagraphs(Tail(texts))

\* the set of sequences over S of length 1..n
SeqsUpTo(S, n) == UNION {[1..k -> S] : k \in 1..n}

Last(s) == s[Len(s)]

(***************************************************************************)
(* Section (dataclass)                                                     *)
(***************************************************************************)
Section(number, title, content, level, parent, children, source) ==
    [section_number |-> number, title |-> title, content |-> content,
     level |-> level, parent_section |-> parent, children |-> children,
     source_file |-> source, effective_date |-> None]

\* Section.word_count
word_count(s) == WordCount(s.content)

(***************************************************************************)
(* SemanticChunker                                                         *)
(***************************************************************************)
\* self.list_pattern.match(line): (a) (1) a. iv. bullet dash, then whitespace.
\* A numbered item "1. ..." is not matched by the chunker's pattern: kind "text".
list_pattern_match(line) == line.kind = "list"

\* _identify_list_blocks: the loop over enumerate(lines); blocks are
\* half-open index pairs <<start, end>>, lines indexed from 1
RECURSIVE identify_loop(_, _, _, _, _)
identify_loop(lines, i, in_list, list_start, list_blocks) ==
    IF i > Len(lines)
    THEN IF in_list THEN Append(list_blocks, <<list_start, Len(lines) + 1>>)
                    ELSE list_blocks
    ELSE LET is_list_item == list_pattern_match(lines[i]) IN
         IF is_list_item /\ ~in_list
         THEN identify_loop(lines, i + 1, TRUE, i, list_blocks)
         ELSE IF ~is_list_item /\ in_list /\ ~IsBlank(lines[i])
         THEN identify_loop(lines, i + 1, FALSE, list_start,
                            Append(list_blocks, <<list_start, i>>))
         ELSE identify_loop(lines, i + 1, in_list, list_start, list_blocks)

identify_list_blocks(content) == identify_loop(content, 1, FALSE, 0, <<>>)

\* the set list_lines built from list_blocks
ListLines(list_blocks) ==
    UNION {b[1] .. (b[2] - 1) : b \in {list_blocks[k] : k \in DOMAIN list_blocks}}

\* a plausible slip: the list blocks are ignored, every blank line ends a unit
in_list_lines_ignored(i, list_lines) == FALSE

\* "if i in list_lines": a line of a list block is accumulated whatever it is
in_list_lines(i, list_lines) == i \in list_lines

\* _split_into_units: the loop over enumerate(lines); a unit is the sequence of
\* the indices of its lines
RECURSIVE units_loop(_, _, _, _, _)
units_loop(lines, i, list_lines, current_unit, units) ==
    IF i > Len(lines)
    THEN IF current_unit # <<>> THEN Append(units, current_unit) ELSE units
    ELSE IF in_list_lines(i, list_lines)
         THEN units_loop(lines, i + 1, list_lines, Append(current_unit, i), units)
         ELSE IF IsBlank(lines[i])
         THEN IF current_unit # <<>>
              THEN units_loop(lines, i + 1, list_lines, <<>>, Append(units, current_unit))
              ELSE units_loop(lines, i + 1, list_lines, current_unit, units)
         ELSE units_loop(lines, i + 1, list_lines, Append(current_unit, i), units)

UnitText(content, unit) == [k \in 1..Len(unit) |-> content[unit[k]]]

\* u.strip() is non-empty
UnitNonBlank(content, unit) == \E k \in 1..Len(unit) : ~IsBlank(content[unit[k]])

split_into_units(content, list_blocks) ==
    LET units == units_loop(content, 1, ListLines(list_blocks), <<>>, <<>>)
    IN  SelectSeq(units, LAMBDA u : UnitNonBlank(content, u))

\* re.split(r'(?<=[.!?])\s+', text)[-1]: the words after the last sentence
\* break of the text, scanning back from line k with acc words already passed;
\* found is FALSE when the text has no break (len(sentences) = 1)
RECURSIVE last_sentence(_, _, _)
last_sentence(text, k, acc) ==
    IF k = 0 THEN [found |-> FALSE, words |-> acc]
    ELSE LET l == text[k] IN
         IF IsBlank(l) THEN last_sentence(text, k - 1, acc)
         ELSE IF k < Len(text) /\ l.end \in {".", "!", "?"}
         THEN [found |-> TRUE, words |-> acc]
         ELSE IF l.tail < l.words
         THEN [found |-> TRUE, words |-> acc + l.tail]
         ELSE last_sentence(text, k - 1, acc + l.words)

\* a piece of a chunk's content: a unit, or the overlap text taken from a unit.
\* idx are the section's line indices of the unit (for an overlap: of the unit
\* it was taken from), text the lines of the piece.
Piece(kind, mode, idx, text) == [kind |-> kind, mode |-> mode, idx |-> idx, text |-> text]

OverlapLine(n, e) ==
    [txt |-> "overlap", kind |-> "text", words |-> n, tail |-> n, end |-> e]

\* _get_overlap_text(current_content): from the last element of current_content;
\* the result Piece has an empty text when the code returns the empty string
get_overlap_text(content, current_content) ==
    IF current_content = <<>> THEN Piece("overlap", "empty", <<>>, <<>>)
    ELSE LET last_chunk == Last(current_content)
             words == WordCount(last_chunk.text)
             sentences == last_sentence(last_chunk.text, Len(last_chunk.text), 0)
             e == Last(last_chunk.text).end
         IN  IF words <= OVERLAP_WORDS
             THEN Piece("overlap", "unit", last_chunk.idx, last_chunk.text)
             ELSE IF sentences.found
             THEN IF sentences.words = 0
                  THEN Piece("overlap", "empty", last_chunk.idx, <<>>)
                  ELSE Piece("overlap", "sentence", last_chunk.idx,
                             <<OverlapLine(sentences.words, e)>>)
             ELSE Piece("overlap", "words", last_chunk.idx,
                        <<OverlapLine(OVERLAP_WORDS, e)>>)

\* the text of a chunk: '\n\n'.join(current_content)
ChunkText(pieces) == JoinParagraphs([k \in 1..Len(pieces) |-> pieces[k].text])

\* the last non-blank line of a text, Blank when there is none
RECURSIVE LastNonBlank(_)
LastNonBlank(text) ==
    IF text = <<>> THEN Blank
    ELSE IF ~IsBlank(Last(text)) THEN Last(text)
    ELSE LastNonBlank(SubSeq(text, 1, Len(text) - 1))

\* list items that end in an effective-date notation
ItemDated ==
    [txt |-> "(b) Staff are trained each year ... (7-1-24)", kind |-> "list",
     words |-> 300, tail |-> 300, end |-> ")"]
ItemEff ==
    [txt |-> "(c) Records are kept ... [eff. 2024-01-01]", kind |-> "list",
     words |-> 300, tail |-> 300, end |-> "]"]

\* the endings _has_incomplete_list takes for a complete item; end is the
\* last character of the stripped line, "none" for any other character
valid_endings == {".", ";", ":", "!", "?", ")", "]"}

\* re.search of the two effective-date patterns at the end of the line
effective_date_suffix(line) == line \in {ItemDated, ItemEff}

\* a plausible slip: any list item of the content is examined, not the last
\* line
has_incomplete_list_any_item(text) ==
    \E k \in DOMAIN text :
        /\ list_pattern_match(text[k])
        /\ text[k].end \notin valid_endings

\* _has_incomplete_list(content)
has_incomplete_list(text) ==
    LET last_line == LastNonBlank(text) IN
    IF IsBlank(last_line) THEN FALSE
    ELSE IF ~list_pattern_match(last_line) THEN FALSE
    ELSE IF last_line.end \in valid_endings THEN FALSE
    ELSE IF effective_date_suffix(last_line) THEN FALSE
    ELSE TRUE

\* hashlib.md5(base.encode()).hexdigest()[:8] of
\* base = f"{source_file}_{section_number}_{position}": modelled as the triple
\* itself (the digest is taken to be injective on the bases of one run)
md5_8(source_file, section_number, position) == <<source_file, section_number, position>>

\* a plausible slip: the digest is taken over the content of the section
generate_chunk_id_from_content(s, position) ==
    <<"CHK", s.section_number, position, md5_8(s.source_file, s.content, position)>>

\* _generate_chunk_id
generate_chunk_id(s, position) ==
    <<"CHK", s.section_number, position, md5_8(s.source_file, s.section_number, position)>>

\* the keywords of _infer_category, _extract_topics and
\* _extract_facility_types found in line.lower()
keywords_in(line) ==
    CASE line.txt = "The administrator shall ..." -> {"administrator"}
      [] line.txt = "Each resident ..." -> {"resident"}
      [] line.txt = "(a) Fire drills ...;" -> {"fire"}
      [] line.txt = "The IdahoHW inspects each SNF. [eff. 2022-03-15]" -> {"snf"}
      [] OTHER -> {}

\* any(w in content_lower for w in ws)
any_keyword(text, ws) == \E i \in DOMAIN text : keywords_in(text[i]) \cap ws # {}

\* int(re.search(r'(\d+)', section_number).group(1)); -1 when the search
\* finds no digit (AttributeError)
section_int(section_number) ==
    CASE section_number = "100" -> 100 [] section_number = "101" -> 101
      [] section_number = "102" -> 102 [] section_number = "103" -> 103
      [] section_number = "104" -> 104 [] section_number = "105" -> 105
      [] section_number = "01" -> 1 [] section_number = "39-3301" -> 39
      [] OTHER -> -1

\* _infer_category(section_number, content)
infer_category(section_number, text) ==
    LET num == section_int(section_number) IN
    IF 100 <= num /\ num < 150 THEN "licensing"
    ELSE IF 200 <= num /\ num < 250 THEN "administration"
    ELSE IF 300 <= num /\ num < 400 THEN "physical_plant"
    ELSE IF 400 <= num /\ num < 500 THEN "staffing"
    ELSE IF 500 <= num /\ num < 600 THEN "resident_care"
    ELSE IF 600 <= num /\ num < 700 THEN "medications"
    ELSE IF 700 <= num /\ num < 800 THEN "food_service"
    ELSE IF 800 <= num /\ num < 900 THEN "records"
    ELSE IF any_keyword(text, {"staff", "employee", "personnel", "nurse"}) THEN "staffing"
    ELSE IF any_keyword(text, {"medication", "drug", "pharmacy"}) THEN "medications"
    ELSE IF any_keyword(text, {"resident", "care", "assessment"}) THEN "resident_care"
    ELSE "general"

\* topic_keywords, in the order of the dict
topic_keywords ==
    << <<"staffing", {"staff", "employee", "personnel", "nurse", "administrator"}>>,
       <<"medications", {"medication", "drug", "pharmacy", "prescription"}>>,
       <<"safety", {"fire", "emergency", "safety", "evacuation"}>>,
       <<"nutrition", {"food", "meal", "diet", "nutrition"}>>,
       <<"rights", {"rights", "dignity", "privacy", "abuse"}>>,
       <<"documentation", {"record", "document", "report", "log"}>>,
       <<"infection_control", {"infection", "sanitation", "hygiene"}>>,
       <<"physical_plant", {"building", "room", "square feet", "bathroom"}>> >>

\* the entries of table, from the k-th on, with a keyword in the text
RECURSIVE tags_from(_, _, _)
tags_from(table, k, text) ==
    IF k > Len(table) THEN <<>>
    ELSE (IF any_keyword(text, table[k][2]) THEN <<table[k][1]>> ELSE <<>>)
         \o tags_from(table, k + 1, text)

\* _extract_topics(content)
extract_topics(text) ==
    LET topics == tags_from(topic_keywords, 1, text) IN
    IF topics # <<>> THEN topics ELSE <<"general">>

\* the three tests of _extract_facility_types, in order
facility_keywords ==
    << <<"ALF", {"assisted living", "alf", "residential care"}>>,
       <<"SNF", {"skilled nursing", "snf", "nursing facility"}>>,
       <<"Memory Care", {"memory care", "dementia"}>> >>

\* _extract_facility_types(content)
extract_facility_types(text) ==
    LET facilities == tags_from(facility_keywords, 1, text) IN
    IF facilities # <<>> THEN facilities ELSE <<"All">>

\* _create_chunk(section, content, position, total); content is a sequence of
\* pieces
create_chunk(s, content, position, total) ==
    LET text == ChunkText(content) IN
    [chunk_id |-> generate_chunk_id(s, position),
     content |-> content,
     section_number |-> s.section_number,
     section_title |-> s.title,
     parent_chunk_id |-> s.parent_section,
     child_chunk_ids |-> s.children,
     position_in_section |-> position,
     total_in_section |-> total,
     source_document |-> s.source_file,
     jurisdiction |-> "Idaho",
     document_type |-> "regulation",
     effective_date |-> s.effective_date,
     category |-> infer_category(s.section_number, text),
     topic_tags |-> extract_topics(text),
     facility_types |-> extract_facility_types(text),
     word_count |-> WordCount(text),
     has_complete_lists |-> ~has_incomplete_list(text),
     semantic_boundary |->
         IF LastNonBlank(text).end = "." THEN "sentence_end"
         ELSE IF position = total THEN "section_end"
         ELSE "paragraph_end"]

\* a plausible slip: the size of the unit about to be added is left out
exceeds_max_without_unit(current_word_count, unit_words) ==
    current_word_count > ABSOLUTE_MAX_WORDS

\* a plausible slip: the target maximum is used for the absolute one
exceeds_max_target(current_word_count, unit_words) ==
    current_word_count + unit_words > MAX_CHUNK_WORDS

\* "current_word_count + unit_words > self.config.ABSOLUTE_MAX_WORDS"
exceeds_max(current_word_count, unit_words) ==
    current_word_count + unit_words > ABSOLUTE_MAX_WORDS

\* a plausible slip: the next chunk is opened with the overlap text alone
open_next_chunk_without_unit(overlap_text, unit) ==
    IF overlap_text.text # <<>> THEN <<overlap_text>> ELSE <<unit>>

\* "current_content = [overlap_text, unit] if overlap_text else [unit]"
open_next_chunk(overlap_text, unit) ==
    IF overlap_text.text # <<>> THEN <<overlap_text, unit>> ELSE <<unit>>

\* _split_large_section: the loop over units; returns the list of chunk texts
\* (each a sequence of pieces)
RECURSIVE split_loop(_, _, _, _, _, _)
split_loop(content, units, k, out, current_content, current_word_count) ==
    IF k > Len(units)
    THEN IF current_content # <<>> THEN Append(out, current_content) ELSE out
    ELSE LET unit == Piece("unit", "unit", units[k], UnitText(content, units[k]))
             unit_words == WordCount(unit.text)
         IN  IF exceeds_max(current_word_count, unit_words)
                /\ current_content # <<>>
             THEN LET overlap_text == get_overlap_text(content, current_content)
                      next_content == open_next_chunk(overlap_text, unit)
                  IN  split_loop(content, units, k + 1, Append(out, current_content),
                                 next_content, WordCount(ChunkText(next_content)))
             ELSE split_loop(content, units, k + 1, out,
                             Append(current_content, unit),
                             current_word_count + unit_words)

split_large_section(s) ==
    LET list_blocks == identify_list_blocks(s.content)
        units == split_into_units(s.content, list_blocks)
        texts == split_loop(s.content, units, 1, <<>>, <<>>, 0)
        total_chunks == Len(texts)
    IN  [i \in 1..total_chunks |-> create_chunk(s, texts[i], i, total_chunks)]

WholeSection(s) ==
    <<Piece("unit", "section", [k \in 1..Len(s.content) |-> k], s.content)>>

\* chunk_section
chunk_section(s) ==
    IF MIN_CHUNK_WORDS <= word_count(s) /\ word_count(s) <= MAX_CHUNK_WORDS
    THEN <<create_chunk(s, WholeSection(s), 1, 1)>>
    ELSE IF word_count(s) < ABSOLUTE_MIN_WORDS
    THEN <<create_chunk(s, WholeSection(s), 1, 1)>>
    ELSE split_large_section(s)

(***************************************************************************)
(* SpecChunk: chunk_section applied to one Section                         *)
(***************************************************************************)
\* the lines a Section's content is drawn from
ChunkerLines ==
    { Blank,
      \* a short closing paragraph
      [txt |-> "P40", kind |-> "text", words |-> 40, tail |-> 40, end |-> "."],
      \* paragraphs
      [txt |-> "P200", kind |-> "text", words |-> 200, tail |-> 200, end |-> "."],
      [txt |-> "P600", kind |-> "text", words |-> 600, tail |-> 25, end |-> "!"],
      [txt |-> "P601", kind |-> "text", words |-> 601, tail |-> 601, end |-> "none"],
      [txt |-> "P1201", kind |-> "text", words |-> 1201, tail |-> 30, end |-> "."],
      \* list items: "(a) ...;"  "a. ..." (a break follows the marker)  "- ..."
      [txt |-> "L200", kind |-> "list", words |-> 200, tail |-> 200, end |-> ";"],
      [txt |-> "L601", kind |-> "list", words |-> 601, tail |-> 600, end |-> "none"],
      [txt |-> "L700", kind |-> "list", words |-> 700, tail |-> 700, end |-> "."] }

ChunkerSections ==
    { Section("100", <<"TEST">>, c, 1, None, <<>>, "test.txt") : c \in SeqsUpTo(ChunkerLines, MaxLines) }

NoSection == Section("", <<>>, <<Blank>>, 1, None, <<>>, "")

ChunkerIdle == section = NoSection /\ chunks = <<>>
MergerIdle == sections = <<>> /\ merged_sections = <<>>
DedupIdle == deduplicator = None /\ all_chunks = <<>> /\ unique_chunks = <<>>
ParserIdle ==
    /\ filename = None
    /\ file_content = <<>>
    /\ doc_type = None
    /\ patterns = None
    /\ runs = <<>>

BatchIdle ==
    /\ directory = <<>>
    /\ next_file = 0
    /\ output_file = None

StageIdle == heap = <<>> /\ handed = <<>>

RechunkIdle ==
    /\ chunks_file = <<>>
    /\ backup_file = None
    /\ raw_dir = <<>>
    /\ api_key = FALSE
    /\ other_chunks = <<>>
    /\ new_chunks = <<>>

SplitterIdle == call = None /\ start = 0 /\ split_chunks = <<>>

OtherIdle == BatchIdle /\ StageIdle /\ RechunkIdle /\ SplitterIdle

ExtraIdle ==
    /\ created_sections = <<>>
    /\ exception = None
    /\ report = None
    /\ verdict = None
    /\ OtherIdle

InitChunk ==
    /\ pc = "chunk_section"
    /\ ExtraIdle
    /\ section \in ChunkerSections
    /\ chunks = <<>>
    /\ MergerIdle
    /\ DedupIdle
    /\ ParserIdle

ChunkSection ==
    /\ pc = "chunk_section"
    /\ chunks' = chunk_section(section)
    /\ pc' = "chunked"
    /\ UNCHANGED <<section, mergerVars, dedupVars, parserVars, runs, extraVars>>

NextChunk == ChunkSection

SpecChunk == InitChunk /\ [][NextChunk]_vars

(***************************************************************************)
(* Properties of chunk_section                                             *)
(***************************************************************************)
\* the list blocks of a content as the specification describes them: a pair
\* <<a, b>> of list-item lines with only list-item and blank lines between
\* them, which no list-item line reached through blank lines extends
ListRun(content, a, b) ==
    /\ a <= b
    /\ list_pattern_match(content[a])
    /\ list_pattern_match(content[b])
    /\ \A i \in a..b : list_pattern_match(content[i]) \/ IsBlank(content[i])

ListBlocksOf(content) ==
    { r \in (1..Len(content)) \X (1..Len(content)) :
        /\ ListRun(content, r[1], r[2])
        /\ ~\E a \in 1..(r[1] - 1) : ListRun(content, a, r[2])
        /\ ~\E b \in (r[2] + 1)..Len(content) : ListRun(content, r[1], b) }

BlockWords(content, r) == SumWords(SubSeq(content, r[1], r[2]))

\* the non-overlap pieces of the chunks, as <<chunk index, piece index>>
UnitPieces ==
    { cp \in (1..Len(chunks)) \X (1..MaxLines) :
        /\ cp[2] \in 1..Len(chunks[cp[1]].content)
        /\ chunks[cp[1]].content[cp[2]].kind = "unit" }

PieceLines(cp) ==
    LET p == chunks[cp[1]].content[cp[2]] IN {p.idx[k] : k \in 1..Len(p.idx)}

\* C1: every list block of the Section's content lies wholly inside one atomic
\* unit of one chunk, and no line of it belongs to a unit of any other chunk,
\* also when the block alone has more than ABSOLUTE_MAX_WORDS words.
C1_ListBlockAtomic ==
    pc = "chunked" =>
        \A r \in ListBlocksOf(section.content) :
            \E cp \in UnitPieces :
                /\ (r[1]..r[2]) \subseteq PieceLines(cp)
                /\ \A other \in UnitPieces :
                       other # cp => PieceLines(other) \cap (r[1]..r[2]) = {}

\* a Section split in several chunks, with a list block of more than 1200
\* words
C1_Witness ==
    /\ pc = "chunked"
    /\ Len(chunks) >= 2
    /\ \E r \in ListBlocksOf(section.content) :
          BlockWords(section.content, r) > ABSOLUTE_MAX_WORDS

\* the content has at least two atomic units: a blank line that follows a
\* paragraph line (not a list item) and has a non-blank line after it
HasParagraphBreak(content) ==
    \E i \in 1..Len(content) :
        /\ IsBlank(content[i])
        /\ \E k \in (i + 1)..Len(content) : ~IsBlank(content[k])
        /\ \E j \in 1..(i - 1) :
              /\ content[j].kind = "text"
              /\ \A m \in (j + 1)..(i - 1) : IsBlank(content[m])

MarkerText(s) ==
    << Blank,
       [txt |-> s.section_number, kind |-> "text", words |-> 1 + Len(s.title),
        tail |-> Len(s.title), end |-> "none"],
       Blank >>

\* the list combined_content: for each section its marker (when it has a
\* title), then its content
RECURSIVE combined_content(_)
combined_content(secs) ==
    IF secs = <<>> THEN <<>>
    ELSE (IF Head(secs).title # <<>> THEN <<MarkerText(Head(secs))>> ELSE <<>>)
         \o <<Head(secs).content>> \o combined_content(Tail(secs))

RECURSIVE all_children(_)
all_children(secs) ==
    IF secs = <<>> THEN <<>> ELSE Head(secs).children \o all_children(Tail(secs))

\* _create_merged_section(contents, sections): an Optional[Section], modelled
\* as the empty sequence (None) or the one-element sequence of the Section
create_merged_section(contents, secs) ==
    IF secs = <<>> THEN <<>>
    ELSE LET base == secs[1] IN
       <<[section_number |-> base.section_number,
          title |-> IF Len(secs) > 1
                    THEN secs[1].title \o <<"through">> \o Last(secs).title
                    ELSE base.title,
          content |-> JoinParagraphs(combined_content(secs)),
          level |-> base.level,
          parent_section |-> base.parent_section,
          children |-> all_children(secs),
          source_file |-> base.source_file,
          effective_date |-> base.effective_date]>>

\* "merged = self._create_merged_section(...); if merged: append(merged)"
append_merged(merged_list, pending_content, pending_metadata) ==
    LET merged == create_merged_section(pending_content, pending_metadata) IN
    IF merged # <<>> THEN Append(merged_list, merged[1]) ELSE merged_list

\* a plausible slip: the pending buffer is discarded, not flushed, when a
\* large Section arrives
emit_large_dropping_pending(merged_list, pending_content, pending_metadata, s) ==
    Append(merged_list, s)

\* the branch "if word_count >= min_words": flush the pending buffer, then
\* append the Section itself
emit_large(merged_list, pending_content, pending_metadata, s) ==
    Append(IF pending_content # <<>>
           THEN append_merged(merged_list, pending_content, pending_metadata)
           ELSE merged_list,
           s)

\* a plausible slip: only the Section just buffered is counted
pending_total_last_only(pending_content) == WordCount(Last(pending_content))

\* "total_words = sum(len(c.split()) for c in pending_content)"
RECURSIVE pending_total(_)
pending_total(pending_content) ==
    IF pending_content = <<>> THEN 0
    ELSE WordCount(Head(pending_content)) + pending_total(Tail(pending_content))

\* _merge_small_sections: the loop over enumerate(sections), then the flush of
\* what is still pending
RECURSIVE merge_loop(_, _, _, _, _)
merge_loop(secs, i, merged_list, pending_content, pending_metadata) ==
    IF i > Len(secs)
    THEN IF pending_content # <<>>
         THEN append_merged(merged_list, pending_content, pending_metadata)
         ELSE merged_list
    ELSE LET s == secs[i] IN
         IF word_count(s) >= MIN_CHUNK_WORDS
         THEN merge_loop(secs, i + 1,
                         emit_large(merged_list, pending_content, pending_metadata, s),
                         <<>>, <<>>)
         ELSE LET pc2 == Append(pending_content, s.content)
                  pm2 == Append(pending_metadata, s)
              IN  IF pending_total(pc2) >= MIN_CHUNK_WORDS
                  THEN merge_loop(secs, i + 1, append_merged(merged_list, pc2, pm2),
                                  <<>>, <<>>)
                  ELSE merge_loop(secs, i + 1, merged_list, pc2, pm2)

merge_small_sections(secs) ==
    IF secs = <<>> THEN secs ELSE merge_loop(secs, 1, <<>>, <<>>, <<>>)

(***************************************************************************)
(* SpecMerge: _merge_small_sections applied to an ordered list of Sections *)
(***************************************************************************)
SectionNumbers == <<"100", "101", "102", "103", "104", "105">>
BodyTexts == <<"body1", "body2", "body3", "body4", "body5", "body6">>

\* the body of the i-th Section: one paragraph of w words
BodyLine(i, w) == [txt |-> BodyTexts[i], kind |-> "text", words |-> w, tail |-> w, end |-> "."]

MergeSizes == {50, 60, 310, 340, 400, 900}
MergeTitles == {<<>>, <<"GENERAL", "PROVISIONS">>}

MergeInputs ==
    UNION { { [i \in 1..n |-> Section(SectionNumbers[i], f[i][2], <<BodyLine(i, f[i][1])>>,
                                      1, None, <<>>, "doc.txt")] :
              f \in [1..n -> MergeSizes \X MergeTitles] } : n \in 1..MaxSections }

InitMerge ==
    /\ pc = "merge_small_sections"
    /\ ExtraIdle
    /\ sections \in MergeInputs
    /\ merged_sections = <<>>
    /\ ChunkerIdle
    /\ DedupIdle
    /\ ParserIdle

MergeSmallSections ==
    /\ pc = "merge_small_sections"
    /\ merged_sections' = merge_small_sections(sections)
    /\ pc' = "merged"
    /\ UNCHANGED <<sections, chunkerVars, dedupVars, parserVars, runs, extraVars>>

NextMerge == MergeSmallSections

SpecMerge == InitMerge /\ [][NextMerge]_vars

(***************************************************************************)
(* Properties of _merge_small_sections                                     *)
(***************************************************************************)
\* the input Section whose body is the line, 0 for a line that is no body
BodyIndex(line) ==
    IF \E i \in 1..Len(sections) : sections[i].content[1] = line
    THEN CHOOSE i \in 1..Len(sections) : sections[i].content[1] = line
    ELSE 0

\* the input Sections whose bodies a content holds, in the order of the content
RECURSIVE BodiesIn(_)
BodiesIn(content) ==
    IF content = <<>> THEN <<>>
    ELSE (IF BodyIndex(Head(content)) # 0 THEN <<BodyIndex(Head(content))>> ELSE <<>>)
         \o BodiesIn(Tail(content))

OutputBodies == [j \in 1..Len(merged_sections) |-> BodiesIn(merged_sections[j].content)]

\* C5: every input Section's content is in exactly one output Section, and the
\* bodies keep the input order across the output Sections and inside each.
C5_MergeKeepsOrderAndContent ==
    pc = "merged" =>
        Concat(OutputBodies) = [i \in 1..Len(sections) |-> i]

\* a merge that folded several Sections into one and kept a large one
C5_Witness ==
    /\ pc = "merged"
    /\ Len(sections) = 3
    /\ Len(merged_sections) = 2
    /\ \E j \in 1..2 : Len(OutputBodies[j]) = 2

RECURSIVE SumInputWords(_, _)
SumInputWords(a, b) ==
    IF a > b THEN 0 ELSE word_count(sections[a]) + SumInputWords(a + 1, b)

Small(i) == word_count(sections[i]) < MIN_CHUNK_WORDS

Lower(t) == CASE t = "Aa" -> "aa" [] t = "Bb" -> "bb" [] OTHER -> t

IsSpace(t) == t \in {" ", "\n"}

\* ' '.join(content.lower().split()): i scans the content, out is the result
\* so far, gap tells that whitespace was passed since the last block
RECURSIVE normalize_loop(_, _, _, _)
normalize_loop(content, i, out, gap) ==
    IF i > Len(content) THEN out
    ELSE IF IsSpace(content[i]) THEN normalize_loop(content, i + 1, out, TRUE)
    ELSE normalize_loop(content, i + 1,
                        (IF gap /\ out # <<>> THEN Append(out, " ") ELSE out)
                            \o <<Lower(content[i])>>,
                        FALSE)

Normalize(content) == normalize_loop(content, 1, <<>>, FALSE)

\* len(normalized)
RECURSIVE StrLen(_)
StrLen(str) ==
    IF str = <<>> THEN 0
    ELSE (IF IsSpace(Head(str)) THEN 1 ELSE BlockChars) + StrLen(Tail(str))

\* x in y
IsSubstring(x, y) ==
    \E o \in 0..(Len(y) - Len(x)) : SubSeq(y, o + 1, o + Len(x)) = x

\* a plausible slip: the normalized content is never recorded as seen
seen_add_forgotten(seen_content, normalized) == seen_content

\* "seen_content.add(normalized)"
seen_add(seen_content, normalized) == seen_content \cup {normalized}

\* RegulatoryDataPipeline._deduplicate: the loop over chunks
RECURSIVE deduplicate_loop(_, _, _, _)
deduplicate_loop(cs, i, seen_content, unique) ==
    IF i > Len(cs) THEN unique
    ELSE LET normalized == Normalize(cs[i].content)
             is_duplicate == normalized \in seen_content
         IN  IF ~is_duplicate
             THEN deduplicate_loop(cs, i + 1,
                                   seen_add(seen_content, normalized),
                                   Append(unique, cs[i]))
             ELSE deduplicate_loop(cs, i + 1, seen_content, unique)

\* a plausible slip: duplicates are removed from the list while it is being
\* iterated, so the chunk after a removed one is passed over unexamined
RECURSIVE remove_in_place_loop(_, _, _)
remove_in_place_loop(cs, i, seen_content) ==
    IF i > Len(cs) THEN cs
    ELSE LET normalized == Normalize(cs[i].content) IN
         IF normalized \in seen_content
         THEN remove_in_place_loop(SubSeq(cs, 1, i - 1) \o SubSeq(cs, i + 1, Len(cs)),
                                   i + 1, seen_content)
         ELSE remove_in_place_loop(cs, i + 1, seen_content \cup {normalized})

deduplicate_removing_in_place(cs) == remove_in_place_loop(cs, 1, {})

deduplicate(cs) == deduplicate_loop(cs, 1, {}, <<>>)

\* the length above which deduplicate_chunks looks for substrings
SUBSTRING_MIN_LEN == 100

\* a plausible slip: only one direction of the substring test
substring_related_one_way(normalized, seen_normalized) ==
    IsSubstring(normalized, seen_normalized)

\* "normalized in seen_normalized or seen_normalized in normalized"
substring_related(normalized, seen_normalized) ==
    IsSubstring(normalized, seen_normalized) \/ IsSubstring(seen_normalized, normalized)

\* the body of "for seen_normalized, seen_chunk in seen_content.items()"
is_duplicate_of(normalized, seen_normalized) ==
    \/ normalized = seen_normalized
    \/ /\ StrLen(normalized) > SUBSTRING_MIN_LEN
       /\ StrLen(seen_normalized) > SUBSTRING_MIN_LEN
       /\ substring_related(normalized, seen_normalized)

\* txt_processor.deduplicate_chunks: the loop over chunks; seen_content is the
\* dict's keys in insertion order
RECURSIVE deduplicate_chunks_loop(_, _, _, _)
deduplicate_chunks_loop(cs, i, seen_content, unique) ==
    IF i > Len(cs) THEN unique
    ELSE LET normalized == Normalize(cs[i].content)
             is_duplicate == \E k \in 1..Len(seen_content) :
                                 is_duplicate_of(normalized, seen_content[k])
         IN  IF ~is_duplicate
             THEN deduplicate_chunks_loop(cs, i + 1,
                                          Append(seen_content, normalized),
                                          Append(unique, cs[i]))
             ELSE deduplicate_chunks_loop(cs, i + 1,
                                          seen_content, unique)

deduplicate_chunks(cs) == deduplicate_chunks_loop(cs, 1, <<>>, <<>>)

(***************************************************************************)
(* SpecDedup: a deduplicator applied to a batch, then to its own output    *)
(***************************************************************************)
DedupContents ==
    { <<"aa">>,                             \* a short chunk
      <<"Aa", " ">>,                        \* the same, capitalised
      <<"aa", " ", "bb">>,                  \* two words, over 100 characters
      <<"Aa", "\n", " ", "Bb">>,            \* the same but for case and spacing
      <<"bb", " ", "aa">>,
      <<"aa", " ", "bb", " ", "aa">>,       \* contains the two before
      <<" ", "bb", " ", "aa", "\n", "bb">> }

DedupBatches ==
    UNION { { [i \in 1..n |-> [chunk_id |-> i, content |-> f[i]]] :
              f \in [1..n -> DedupContents] } : n \in 1..MaxBatch }

InitDedup ==
    /\ pc = "deduplicate"
    /\ ExtraIdle
    /\ deduplicator \in {"_deduplicate", "deduplicate_chunks"}
    /\ all_chunks \in DedupBatches
    /\ unique_chunks = <<>>
    /\ ChunkerIdle
    /\ MergerIdle
    /\ ParserIdle

\* the batch the next pass reads: the batch itself, then the last result
DedupInput == IF unique_chunks = <<>> THEN all_chunks ELSE Last(unique_chunks)

\* process_directory: all_chunks = self._deduplicate(all_chunks)
Deduplicate ==
    /\ pc = "deduplicate"
    /\ deduplicator = "_deduplicate"
    /\ Len(unique_chunks) < 2
    /\ unique_chunks' = Append(unique_chunks, deduplicate(DedupInput))
    /\ UNCHANGED <<pc, deduplicator, all_chunks, chunkerVars, mergerVars, parserVars, runs, extraVars>>

\* txt_processor.main: unique_chunks = deduplicate_chunks(all_chunks)
DeduplicateChunks ==
    /\ pc = "deduplicate"
    /\ deduplicator = "deduplicate_chunks"
    /\ Len(unique_chunks) < 2
    /\ unique_chunks' = Append(unique_chunks, deduplicate_chunks(DedupInput))
    /\ UNCHANGED <<pc, deduplicator, all_chunks, chunkerVars, mergerVars, parserVars, runs, extraVars>>

NextDedup == Deduplicate \/ DeduplicateChunks

SpecDedup == InitDedup /\ [][NextDedup]_vars

(***************************************************************************)
(* Properties of the deduplicators                                         *)
(***************************************************************************)
Norm(c) == Normalize(c.content)

\* C7: the output is an order-preserving subsequence of the input, no two of
\* its chunks have the same normalized content, and a chunk survives only if
\* no earlier input chunk has its normalized content.
C7_DedupFirstWins ==
    Len(unique_chunks) >= 1 =>
        LET out == unique_chunks[1] IN
        /\ \A k \in 1..Len(out) :
             /\ out[k].chunk_id \in 1..Len(all_chunks)
             /\ out[k] = all_chunks[out[k].chunk_id]
             /\ \A j \in 1..(out[k].chunk_id - 1) : Norm(all_chunks[j]) # Norm(out[k])
        /\ \A k, m \in 1..Len(out) :
             k < m => /\ out[k].chunk_id < out[m].chunk_id
                      /\ Norm(out[k]) # Norm(out[m])

\* a batch in which a chunk differing from an earlier one only by case and
\* spacing was removed and a later chunk kept
C7_Witness ==
    /\ Len(unique_chunks) >= 1
    /\ Len(all_chunks) = 3
    /\ all_chunks[1].content # all_chunks[2].content
    /\ Norm(all_chunks[1]) = Norm(all_chunks[2])
    /\ Len(unique_chunks[1]) = 2

\* C8: the deduplicator applied to its own output removes nothing.
C8_DedupIdempotent ==
    Len(unique_chunks) = 2 => unique_chunks[2] = unique_chunks[1]

\* a second pass over the output of a first pass that removed chunks
C8_Witness ==
    /\ Len(unique_chunks) = 2
    /\ deduplicator = "deduplicate_chunks"
    /\ Len(unique_chunks[1]) < Len(all_chunks)
    /\ Len(unique_chunks[1]) >= 2

\* C9 as stated: no surviving chunk's normalized content is identical to, or
\* a substring of, another surviving chunk's.
C9_AsStated ==
    Len(unique_chunks) >= 1 =>
        LET out == unique_chunks[1] IN
        \A k, m \in 1..Len(out) :
            k # m => /\ Norm(out[k]) # Norm(out[m])
                     /\ ~IsSubstring(Norm(out[k]), Norm(out[m]))

\* C9 (amended): no two surviving chunks have identical normalized content;
\* after deduplicate_chunks, moreover, no surviving chunk with more than 100
\* normalized characters is a substring of another surviving chunk.
C9_NoDuplicateSurvives ==
    Len(unique_chunks) >= 1 =>
        LET out == unique_chunks[1] IN
        \A k, m \in 1..Len(out) :
            k # m => /\ Norm(out[k]) # Norm(out[m])
                     /\ (deduplicator = "deduplicate_chunks"
                         /\ StrLen(Norm(out[k])) > SUBSTRING_MIN_LEN)
                        => ~IsSubstring(Norm(out[k]), Norm(out[m]))

\* deduplicate_chunks removed a chunk that is a proper substring of an earlier
\* one and kept another chunk with it
C9_Witness ==
    /\ Len(unique_chunks) >= 1
    /\ deduplicator = "deduplicate_chunks"
    /\ Len(all_chunks) = 3
    /\ Norm(all_chunks[2]) # Norm(all_chunks[1])
    /\ IsSubstring(Norm(all_chunks[2]), Norm(all_chunks[1]))
    /\ [k \in 1..Len(unique_chunks[1]) |-> unique_chunks[1][k].chunk_id] = <<1, 3>>

(***************************************************************************)
(* DocumentParser.detect_document_type and the choice of section patterns  *)
(*                                                                         *)
(* A file name is modelled by the set of its words and its extension; a    *)
(* document, for type detection, by the set of its lines, each one of the  *)
(* sample lines below.                                                     *)
(***************************************************************************)
\* DocumentType
IDAPA == "idapa"
IDAHO_CODE == "idaho_code"
FDA_FOOD_CODE == "food_code"
ADA_GUIDELINES == "ada_guidelines"
REFERENCE_LINKS == "reference_links"
UNKNOWN == "unknown"

\* filename.lower(), word by word
LowerWord(w) ==
    CASE w = "IDAPA" -> "idapa" [] w = "TITLE" -> "title" [] w = "Food" -> "food"
      [] w = "Code" -> "code" [] w = "ADA" -> "ada" [] w = "Nevada" -> "nevada"
      [] OTHER -> w

\* keyword in filename_lower
InLower(keyword, name) ==
    \E w \in name.words :
        \/ LowerWord(w) = keyword
        \/ keyword = "ada" /\ LowerWord(w) = "nevada"

\* any(c.isdigit() for c in filename)
HasDigit(name) == \E w \in name.words : w \in {"39", "16", "16.03.22"}

\* re.search(pattern, content, re.MULTILINE) for the two patterns of each
\* entry of TYPE_PATTERNS, on the sample lines
TypePatternHits(doc, line) ==
    CASE doc = IDAPA -> line \in {"IDAPA 16.03.22.100", "100. LICENSING.",
                                  "101. DEFINITIONS. Terms used in this chapter ...",
                                  "102. FEES. The department charges ..."}
      [] doc = IDAHO_CODE -> line \in {"39-3301. DEFINITIONS", "TITLE 39"}
      [] doc = FDA_FOOD_CODE -> line \in {"3-201.11 Temperature", "Food Code"}
      [] doc = ADA_GUIDELINES -> line \in {"4.1.1 Application", "ADA Accessibility Guidelines"}
      [] OTHER -> FALSE

\* TYPE_PATTERNS.items(), in the order of the dict
TYPE_PATTERNS == <<IDAPA, IDAHO_CODE, FDA_FOOD_CODE, ADA_GUIDELINES>>

\* "for doc_type, patterns in self.TYPE_PATTERNS.items()": the first entry, from
\* the k-th on, with a pattern found in the content
RECURSIVE content_type(_, _)
content_type(text, k) ==
    IF k > Len(TYPE_PATTERNS) THEN UNKNOWN
    ELSE IF \E line \in text : TypePatternHits(TYPE_PATTERNS[k], line)
    THEN TYPE_PATTERNS[k]
    ELSE content_type(text, k + 1)

\* a plausible slip: the food-code hint is tested before the idapa hint
filename_hint_food_first(name) ==
    IF InLower("food", name) /\ InLower("code", name) THEN FDA_FOOD_CODE
    ELSE IF InLower("idapa", name) THEN IDAPA
    ELSE IF InLower("title", name) /\ HasDigit(name) THEN IDAHO_CODE
    ELSE IF InLower("ada", name) THEN ADA_GUIDELINES
    ELSE IF name.ext = ".json" THEN REFERENCE_LINKS
    ELSE None

\* "Check filename hints first": the type a hint gives, None when no hint
\* matches
filename_hint(name) ==
    IF InLower("idapa", name) THEN IDAPA
    ELSE IF InLower("title", name) /\ HasDigit(name) THEN IDAHO_CODE
    ELSE IF InLower("food", name) /\ InLower("code", name) THEN FDA_FOOD_CODE
    ELSE IF InLower("ada", name) THEN ADA_GUIDELINES
    ELSE IF name.ext = ".json" THEN REFERENCE_LINKS
    ELSE None

\* detect_document_type(content, filename)
detect_document_type(text, name) ==
    IF filename_hint(name) # None THEN filename_hint(name)
    ELSE content_type(text, 1)

\* SECTION_PATTERNS: for each type that has an entry, the names of its levels
\* in the order of the dict
SECTION_PATTERNS ==
    [idapa |-> <<"level_1", "level_2", "level_3">>,
     idaho_code |-> <<"level_1">>,
     food_code |-> <<"level_1">>,
     ada_guidelines |-> <<"level_1", "level_2">>]

\* self.SECTION_PATTERNS.get(doc_type, self.SECTION_PATTERNS[DocumentType.IDAPA])
section_patterns(doc) ==
    IF doc \in DOMAIN SECTION_PATTERNS
    THEN [grammar |-> doc, levels |-> SECTION_PATTERNS[doc]]
    ELSE [grammar |-> IDAPA, levels |-> SECTION_PATTERNS[IDAPA]]

(***************************************************************************)
(* DocumentParser.parse_document                                           *)
(*                                                                         *)
(* The lines of a document are drawn from DocLines.  What the regular      *)
(* expressions of the parser, the cleaner and the tagger find in a line is *)
(* tabulated by the line's text.                                           *)
(***************************************************************************)
DocLine(txt, kind, words, tail, end) ==
    [txt |-> txt, kind |-> kind, words |-> words, tail |-> tail, end |-> end]

\* section headers of the administrative code; a header line may carry the
\* first paragraph of the section
H100 == DocLine("100. LICENSING.", "text", 2, 1, ".")
H101 == DocLine("101. DEFINITIONS. Terms used in this chapter ...", "text", 32, 30, ".")
H102 == DocLine("102. FEES. The department charges ...", "text", 32, 30, ".")
H01 == DocLine("01. General Requirements. Each facility ...", "text", 453, 20, ".")
H01Scope == DocLine("01. Scope. These rules ...", "text", 22, 20, ".")
Ha == DocLine("a. Specific item ...", "list", 20, 19, ";")
\* a section header of the statutes
H39 == DocLine("39-3301. DEFINITIONS", "text", 2, 1, "none")
\* body lines
B30 == DocLine("The administrator shall ...", "text", 30, 30, ".")
B450 == DocLine("Each resident ...", "text", 450, 25, ".")
PageNo == DocLine("Page 3 of 10", "text", 4, 4, "none")
ItemA == DocLine("(a) Fire drills ...;", "list", 10, 10, ";")
Dated ==
    DocLine("The Idaho Department of Health and Welfare inspects each nursing home. (3-15-22)",
            "text", 12, 1, ";")

DocLines == {H100, H101, H102, H01, H01Scope, Ha, H39, B30, B450, PageNo, ItemA, Dated, Blank}

\* len(line)
Chars(line) ==
    CASE line = H100 -> 15 [] line = H101 -> 200 [] line = H102 -> 200
      [] line = H01 -> 2700
      [] line = H01Scope -> 140 [] line = Ha -> 120 [] line = H39 -> 20
      [] line = B30 -> 180 [] line = B450 -> 2700 [] line = PageNo -> 12
      [] line = ItemA -> 60 [] line = Dated -> 80 [] OTHER -> 0

\* len('\n'.join(lines))
RECURSIVE TextChars(_)
TextChars(text) ==
    IF text = <<>> THEN 0
    ELSE IF Len(text) = 1 THEN Chars(text[1])
    ELSE Chars(text[1]) + 1 + TextChars(Tail(text))

\* text.strip(), for lines without outer whitespace: the empty lines at both
\* ends go; the empty string when nothing is left
RECURSIVE StripText(_)
StripText(text) ==
    IF text = <<>> THEN <<Blank>>
    ELSE IF IsBlank(Head(text)) THEN StripText(Tail(text))
    ELSE IF IsBlank(Last(text)) THEN StripText(SubSeq(text, 1, Len(text) - 1))
    ELSE text

\* re.match(pattern, line.strip()) for the pattern level_name of the grammar:
\* no match (the empty sequence) or the match's level, group(1) and
\* group(2).strip()
section_match(grammar, level_name, line) ==
    CASE grammar = IDAPA /\ level_name = "level_1" /\ line = H100 ->
             <<[level |-> 1, section_num |-> "100", title |-> <<"LICENSING">>]>>
      [] grammar = IDAPA /\ level_name = "level_1" /\ line = H101 ->
             <<[level |-> 1, section_num |-> "101", title |-> <<"DEFINITIONS">>]>>
      [] grammar = IDAPA /\ level_name = "level_1" /\ line = H102 ->
             <<[level |-> 1, section_num |-> "102", title |-> <<"FEES">>]>>
      [] grammar = IDAPA /\ level_name = "level_2" /\ line = H01 ->
             <<[level |-> 2, section_num |-> "01", title |-> <<"General", "Requirements">>]>>
      [] grammar = IDAPA /\ level_name = "level_2" /\ line = H01Scope ->
             <<[level |-> 2, section_num |-> "01", title |-> <<"Scope">>]>>
      [] grammar = IDAPA /\ level_name = "level_3" /\ line = Ha ->
             <<[level |-> 3, section_num |-> "a", title |-> <<>>]>>
      [] grammar = IDAHO_CODE /\ level_name = "level_1" /\ line = H39 ->
             <<[level |-> 1, section_num |-> "39-3301", title |-> <<"DEFINITIONS">>]>>
      [] OTHER -> <<>>

\* "for level_name, pattern in patterns.items()": the first match, from the
\* k-th pattern on
RECURSIVE first_match(_, _, _)
first_match(pats, k, line) ==
    IF k > Len(pats.levels) THEN <<>>
    ELSE IF section_match(pats.grammar, pats.levels[k], line) # <<>>
    THEN section_match(pats.grammar, pats.levels[k], line)
    ELSE first_match(pats, k + 1, line)

\* a plausible slip: the character floor is not applied
passes_floor_always(text) == text # <<Blank>>

\* "current_section.content and len(current_section.content) > 100"
passes_floor(text) == text # <<Blank>> /\ TextChars(text) > 100

\* "Save previous section".  created lists every Section object made so far,
\* kept the indices of those appended to sections, in order; cur is the index
\* of current_section, 0 for None.
save_section(created, kept, cur, current_content) ==
    IF cur = 0 THEN [created |-> created, kept |-> kept]
    ELSE LET text == StripText(current_content) IN
         [created |-> [created EXCEPT ![cur].content = text],
          kept |-> IF passes_floor(text) THEN Append(kept, cur) ELSE kept]

\* "Set parent relationship": the new Section with its parent_section set
with_parent(created, current_parents, new_section) ==
    IF new_section.level > 1 /\ (new_section.level - 1) \in DOMAIN current_parents
    THEN [new_section EXCEPT
              !.parent_section = created[current_parents[new_section.level - 1]].section_number]
    ELSE new_section

\* a plausible slip: the child is not recorded with its parent
with_child_forgotten(created, current_parents, new_section) == created

\* "current_parents[level - 1].children.append(new_section.section_number)"
with_child(created, current_parents, new_section) ==
    IF new_section.level > 1 /\ (new_section.level - 1) \in DOMAIN current_parents
    THEN LET p == current_parents[new_section.level - 1] IN
         [created EXCEPT ![p].children = Append(@, new_section.section_number)]
    ELSE created

\* a plausible slip: the deeper levels are not cleared
track_parent_keep_deeper(current_parents, level, idx) ==
    [l \in DOMAIN current_parents \cup {level} |->
        IF l = level THEN idx ELSE current_parents[l]]

\* "Update parent tracking" and "Clear deeper levels"
track_parent(current_parents, level, idx) ==
    [l \in {k \in DOMAIN current_parents : k < level} \cup {level} |->
        IF l = level THEN idx ELSE current_parents[l]]

\* the loop over the lines, then "Don't forget the last section": the Section
\* objects made and the indices of those appended to sections
RECURSIVE parse_loop(_, _, _, _, _, _, _, _)
parse_loop(lines, i, pats, name, created, kept, current_parents, cur_content) ==
    LET cur == Len(created) IN
    IF i > Len(lines)
    THEN save_section(created, kept, cur, cur_content)
    ELSE LET match == first_match(pats, 1, lines[i]) IN
         IF match # <<>>
         THEN LET saved == save_section(created, kept, cur, cur_content)
                  new_section == with_parent(saved.created, current_parents,
                      Section(match[1].section_num, match[1].title, <<Blank>>,
                              match[1].level, None, <<>>, name))
                  linked == with_child(saved.created, current_parents, new_section)
              IN  parse_loop(lines, i + 1, pats, name, Append(linked, new_section),
                             saved.kept,
                             track_parent(current_parents, match[1].level, Len(linked) + 1),
                             <<lines[i]>>)
         ELSE IF cur # 0
         THEN parse_loop(lines, i + 1, pats, name, created, kept, current_parents,
                         Append(cur_content, lines[i]))
         ELSE parse_loop(lines, i + 1, pats, name, created, kept, current_parents,
                         cur_content)

\* the texts of the lines of a document
LineTexts(text) == {text[i].txt : i \in DOMAIN text}

\* the lines of JSON documents: a list is written with its brackets and
\* each of its items on a line of its own (an item's line carries the comma
\* that separates it from the next)
JOpen == DocLine("[", "text", 1, 1, ";")
JClose == DocLine("]", "text", 1, 1, ";")
JTitled == DocLine("{\"title\": \"Admission\", \"url\": \"a\"}", "text", 4, 4, "none")
JUntitled == DocLine("{\"url\": \"b\"}", "text", 2, 2, "none")
JNumber == DocLine("7", "text", 1, 1, "none")

JsonLines == {JOpen, JClose, JTitled, JUntitled, JNumber, B30}

\* json.loads(content): "JSONDecodeError", or the value read: a list of items,
\* an object or a number
json_loads(text) ==
    IF Len(text) >= 2 /\ text[1] = JOpen /\ text[Len(text)] = JClose
       /\ \A i \in 2..(Len(text) - 1) : text[i] \in {JTitled, JUntitled, JNumber}
    THEN [type |-> "list", items |-> SubSeq(text, 2, Len(text) - 1)]
    ELSE IF text = <<JTitled>> \/ text = <<JUntitled>>
    THEN [type |-> "dict", items |-> IF text = <<JTitled>> THEN <<"title", "url">> ELSE <<"url">>]
    ELSE IF text = <<JNumber>> THEN [type |-> "int", items |-> <<>>]
    ELSE [type |-> "JSONDecodeError", items |-> <<>>]

\* f"REF-{i+1:03d}" for the i-th item, counted from 1
RefNumbers == <<"REF-001", "REF-002", "REF-003", "REF-004", "REF-005", "REF-006">>

\* item.get('title', 'Reference')
item_title(item) == IF item = JTitled THEN <<"Admission">> ELSE <<"Reference">>

\* json.dumps(item, indent=2)
json_dumps(item) ==
    IF item = JTitled
    THEN << DocLine("{", "text", 1, 1, "none"),
            DocLine("\"title\": \"Admission\",", "text", 2, 2, "none"),
            DocLine("\"url\": \"a\"", "text", 2, 2, "none"),
            DocLine("}", "text", 1, 1, "none") >>
    ELSE << DocLine("{", "text", 1, 1, "none"),
            DocLine("\"url\": \"b\"", "text", 2, 2, "none"),
            DocLine("}", "text", 1, 1, "none") >>

\* the Section made of the i-th item
ref_section(items, i, name) ==
    Section(RefNumbers[i], item_title(items[i]), json_dumps(items[i]), 1, None, <<>>, name)

\* _parse_reference_links(content, filename): the exception that leaves the
\* function (only JSONDecodeError is caught), None when it returns, and the
\* list returned.  Iterating a number raises TypeError; item.get on an item
\* that is not an object (a key of a dict, a number) raises AttributeError.
reference_links_outcome(text, name) ==
    LET data == json_loads(text) IN
    CASE data.type = "JSONDecodeError" -> [raised |-> None, sections |-> <<>>]
      [] data.type = "int" -> [raised |-> "TypeError", sections |-> <<>>]
      [] data.type = "dict" -> [raised |-> "AttributeError", sections |-> <<>>]
      [] data.type = "list" ->
             IF \E i \in DOMAIN data.items : data.items[i] = JNumber
             THEN [raised |-> "AttributeError", sections |-> <<>>]
             ELSE [raised |-> None,
                   sections |-> [i \in DOMAIN data.items |-> ref_section(data.items, i, name)]]

\* the list _parse_reference_links returns, when it returns
parse_reference_links(text, name) == reference_links_outcome(text, name).sections

\* the pass of parse_document over the lines of a document that is not a
\* reference list
parse_pass(text, name) ==
    LET dt == detect_document_type(LineTexts(text), name) IN
    parse_loop(text, 1, section_patterns(dt), name, <<>>, <<>>, <<>>, <<>>)

\* the list sections at the end of a pass
kept_sections(pass) == [k \in 1..Len(pass.kept) |-> pass.created[pass.kept[k]]]

\* parse_document(content, filename)
parse_document(text, name) ==
    LET dt == detect_document_type(LineTexts(text), name) IN
    IF dt = REFERENCE_LINKS THEN parse_reference_links(text, name)
    ELSE kept_sections(parse_pass(text, name))

(***************************************************************************)
(* ContentCleaner                                                          *)
(***************************************************************************)
\* self.noise_pattern.search(line)
noise_match(line) == line = PageNo

\* _remove_noise
remove_noise(text) ==
    LET keep(line) == ~noise_match(line)
        cleaned_lines == SelectSeq(text, keep)
    IN  IF cleaned_lines = <<>> THEN <<Blank>> ELSE cleaned_lines

\* the line Dated after _normalize_dates, _normalize_citations and
\* _apply_normalization_dict: "(3-15-22)" becomes "[eff. 2022-03-15]", the
\* department "IDHW", "nursing home" "SNF", and then "ID" "Idaho"
DatedClean == DocLine("The IdahoHW inspects each SNF. [eff. 2022-03-15]", "text", 7, 1, ";")

\* _normalize_dates, _normalize_citations, _apply_normalization_dict, which
\* rewrite inside lines
normalize_line(line) == IF line = Dated THEN DatedClean ELSE line

normalize_terms(text) == [i \in DOMAIN text |-> normalize_line(text[i])]

\* the line starts with a marker of list_markers: "a. ", "(a) " or "1. "
list_marker_match(line) == line \in {Ha, ItemA, H100, H101, H102, H01, H01Scope}

\* the line ends in one of . ; :
clause_end(line) == line.end \in {".", ";"} /\ line \notin {Dated, DatedClean}

\* out without the empty lines at its end
RECURSIVE DropTrailingBlank(_)
DropTrailingBlank(out) ==
    IF out # <<>> /\ IsBlank(Last(out))
    THEN DropTrailingBlank(SubSeq(out, 1, Len(out) - 1))
    ELSE out

\* _format_lists: where a marker follows . ; or : across whitespace only, the
\* whitespace becomes one empty line.  (No line of DocLines has a marker
\* inside it.)
RECURSIVE format_lists_loop(_, _, _)
format_lists_loop(text, i, out) ==
    IF i > Len(text) THEN out
    ELSE LET before == DropTrailingBlank(out) IN
         IF list_marker_match(text[i]) /\ before # <<>> /\ clause_end(Last(before))
         THEN format_lists_loop(text, i + 1, before \o <<Blank, text[i]>>)
         ELSE format_lists_loop(text, i + 1, Append(out, text[i]))

format_lists(text) == format_lists_loop(text, 1, <<>>)

\* re.sub(r'\n{4,}', '\n\n\n', content): of three or more empty lines in a
\* row two are left
RECURSIVE collapse_blank_loop(_, _, _)
collapse_blank_loop(text, i, out) ==
    IF i > Len(text) THEN out
    ELSE IF IsBlank(text[i]) /\ Len(out) >= 2 /\ IsBlank(out[Len(out)])
            /\ IsBlank(out[Len(out) - 1])
    THEN collapse_blank_loop(text, i + 1, out)
    ELSE collapse_blank_loop(text, i + 1, Append(out, text[i]))

\* _clean_whitespace
clean_whitespace(text) == StripText(collapse_blank_loop(text, 1, <<>>))

\* clean(content)
clean(text) == clean_whitespace(format_lists(normalize_terms(remove_noise(text))))

(***************************************************************************)
(* MetadataTagger                                                          *)
(***************************************************************************)
\* the jurisdictions of JURISDICTION_INDICATORS with an indicator in the line
indicators_in(line) == IF line = DatedClean \/ line = Dated THEN {"Idaho"} ELSE {}

\* the words Food and Code of a file name are adjacent, in this order
\* _determine_jurisdiction(content, source_file)
determine_jurisdiction(text, source_file) ==
    IF InLower("idapa", source_file) \/ InLower("idaho", source_file) THEN "Idaho"
    ELSE IF InLower("ada", source_file) THEN "Federal-ADA"
    ELSE IF InLower("food", source_file) /\ InLower("code", source_file) THEN "Federal-FDA"
    ELSE IF \E i \in DOMAIN text : "Idaho" \in indicators_in(text[i]) THEN "Idaho"
    ELSE IF \E i \in DOMAIN text : "Federal" \in indicators_in(text[i]) THEN "Federal"
    ELSE IF \E i \in DOMAIN text : "ADA" \in indicators_in(text[i]) THEN "ADA"
    ELSE "Unknown"

\* _extract_effective_date(content)
extract_effective_date(text) ==
    IF \E i \in DOMAIN text : text[i] = DatedClean THEN "2022-03-15" ELSE None

\* enrich_chunk(chunk)
enrich_chunk(chunk) ==
    LET text == ChunkText(chunk.content)
        effective_date == extract_effective_date(text)
    IN  [chunk EXCEPT
            !.jurisdiction = determine_jurisdiction(text, chunk.source_document),
            !.effective_date = IF effective_date # None THEN effective_date ELSE @]

(***************************************************************************)
(* RegulatoryDataPipeline.process_document                                 *)
(***************************************************************************)
\* "for section in sections: chunks = chunk_section(section); extend"
RECURSIVE chunk_sections(_)
chunk_sections(secs) ==
    IF secs = <<>> THEN <<>>
    ELSE chunk_section(Head(secs)) \o chunk_sections(Tail(secs))

\* process_document(content, filename)
process_document(text, name) ==
    LET parsed == parse_document(text, name)
        cleaned == [i \in DOMAIN parsed |->
                       [parsed[i] EXCEPT !.content = clean(parsed[i].content)]]
        merged == merge_small_sections(cleaned)
        chunked == chunk_sections(merged)
    IN  [i \in DOMAIN chunked |-> enrich_chunk(chunked[i])]

(***************************************************************************)
(* SpecPipeline: process_document called twice on one document             *)
(***************************************************************************)
PipelineFiles ==
    { [words |-> {"IDAPA", "16.03.22"}, ext |-> ".txt"],
      [words |-> {"rules"}, ext |-> ".txt"],
      [words |-> {"rules"}, ext |-> ".json"] }

Documents == SeqsUpTo(DocLines, MaxDocLines)

InitPipeline ==
    /\ pc = "process_document"
    /\ ExtraIdle
    /\ filename \in PipelineFiles
    /\ file_content \in Documents
    /\ doc_type = None
    /\ patterns = None
    /\ runs = <<>>
    /\ ChunkerIdle
    /\ MergerIdle
    /\ DedupIdle

ProcessDocument ==
    /\ pc = "process_document"
    /\ Len(runs) < 2
    /\ runs' = Append(runs, process_document(file_content, filename))
    /\ UNCHANGED <<pc, chunkerVars, mergerVars, dedupVars, parserVars, extraVars>>

NextPipeline == ProcessDocument

SpecPipeline == InitPipeline /\ [][NextPipeline]_vars

(***************************************************************************)
(* QualityValidator.validate_chunks, QualityReport                         *)
(***************************************************************************)
\* QualityThresholds.TARGET_CHUNK_SIZE_COMPLIANCE, in percent
TARGET_CHUNK_SIZE_COMPLIANCE == 90

\* sum(1 for c in chunks if P(c))
CountIf(cs, P(_)) == Cardinality({i \in DOMAIN cs : P(cs[i])})

\* validate_chunks(chunks)
validate_chunks(cs) ==
    LET InRange(c) == MIN_CHUNK_WORDS <= c.word_count /\ c.word_count <= MAX_CHUNK_WORDS
        BelowMin(c) == c.word_count < ABSOLUTE_MIN_WORDS
        AboveMax(c) == c.word_count > ABSOLUTE_MAX_WORDS
        SplitList(c) == ~c.has_complete_lists
        WithParent(c) == c.parent_chunk_id # None
        Orphaned(c) == c.parent_chunk_id = None /\ c.position_in_section = 1
    IN  [total_chunks |-> Len(cs),
         chunks_in_target_range |-> CountIf(cs, InRange),
         chunks_below_minimum |-> CountIf(cs, BelowMin),
         chunks_above_maximum |-> CountIf(cs, AboveMax),
         chunks_with_split_lists |-> CountIf(cs, SplitList),
         chunks_with_parent_links |-> CountIf(cs, WithParent),
         orphaned_chunks |-> CountIf(cs, Orphaned)]

\* size_compliance_rate < TARGET_CHUNK_SIZE_COMPLIANCE; the rate is 0 for no
\* chunk
size_below_target(r) ==
    IF r.total_chunks > 0
    THEN r.chunks_in_target_range * 100 < TARGET_CHUNK_SIZE_COMPLIANCE * r.total_chunks
    ELSE TRUE

\* list_integrity_rate < 1.0; the rate is 0 for no chunk
list_integrity_below_one(r) ==
    IF r.total_chunks > 0 THEN r.chunks_with_split_lists > 0 ELSE TRUE

\* hierarchy_coverage_rate < 1.0; the rate is 0 for no chunk
hierarchy_below_one(r) ==
    IF r.total_chunks > 0 THEN r.chunks_with_parent_links < r.total_chunks ELSE TRUE

\* passes_production_threshold(): (len(issues) == 0, issues); an issue is
\* modelled by the name of its threshold
passes_production_threshold(r) ==
    LET issues ==
            (IF size_below_target(r) THEN <<"Chunk size compliance">> ELSE <<>>)
            \o (IF list_integrity_below_one(r) THEN <<"List integrity">> ELSE <<>>)
            \o (IF hierarchy_below_one(r) THEN <<"Hierarchy coverage">> ELSE <<>>)
            \o (IF r.orphaned_chunks > 0 THEN <<"Orphaned chunks">> ELSE <<>>)
    IN  <<Len(issues) = 0, issues>>

(***************************************************************************)
(* SpecValidate: a batch of chunks validated and judged                    *)
(***************************************************************************)
\* what the validator reads of a chunk
ValidatedChunk(words, complete, parent, position) ==
    [word_count |-> words, has_complete_lists |-> complete,
     parent_chunk_id |-> parent, position_in_section |-> position]

\* a chunk that violates nothing
GoodChunk == ValidatedChunk(500, TRUE, "100", 1)

ValidatedChunks ==
    { ValidatedChunk(w, c, p, k) :
        w \in {399, 400, 800, 801}, c \in BOOLEAN, p \in {None, "100"}, k \in {1, 2} }

\* up to MaxGood chunks that violate nothing, then up to MaxOther chunks of
\* any kind
ValidatorBatches ==
    { [i \in 1..n |-> GoodChunk] \o t :
        n \in 0..MaxGood, t \in {<<>>} \cup SeqsUpTo(ValidatedChunks, MaxOther) }

InitValidate ==
    /\ pc = "validate_chunks"
    /\ all_chunks \in ValidatorBatches
    /\ deduplicator = None
    /\ unique_chunks = <<>>
    /\ ChunkerIdle
    /\ MergerIdle
    /\ ParserIdle
    /\ created_sections = <<>>
    /\ exception = None
    /\ report = None
    /\ verdict = None
    /\ OtherIdle

ValidateChunks ==
    /\ pc = "validate_chunks"
    /\ report' = validate_chunks(all_chunks)
    /\ pc' = "passes_production_threshold"
    /\ UNCHANGED <<chunkerVars, mergerVars, dedupVars, parserVars, runs,
                   created_sections, exception, verdict, otherVars>>

PassesProductionThreshold ==
    /\ pc = "passes_production_threshold"
    /\ verdict' = passes_production_threshold(report)
    /\ pc' = "judged"
    /\ UNCHANGED <<chunkerVars, mergerVars, dedupVars, parserVars, runs,
                   created_sections, exception, report, otherVars>>

NextValidate == ValidateChunks \/ PassesProductionThreshold

SpecValidate == InitValidate /\ [][NextValidate]_vars

(***************************************************************************)
(* Properties of the quality report                                        *)
(***************************************************************************)
\* the four thresholds as the claim words them, for a batch
SizeHolds(cs) ==
    Cardinality({i \in DOMAIN cs : 400 <= cs[i].word_count /\ cs[i].word_count <= 800}) * 10
        >= 9 * Len(cs)

ListsHold(cs) == \A i \in DOMAIN cs : cs[i].has_complete_lists

NonFirstLinked(cs) ==
    \A i \in DOMAIN cs : cs[i].position_in_section > 1 => cs[i].parent_chunk_id # None

NoOrphan(cs) ==
    \A i \in DOMAIN cs : cs[i].position_in_section = 1 => cs[i].parent_chunk_id # None

StatedIssues(cs) ==
    (IF ~SizeHolds(cs) THEN <<"Chunk size compliance">> ELSE <<>>)
    \o (IF ~ListsHold(cs) THEN <<"List integrity">> ELSE <<>>)
    \o (IF ~NonFirstLinked(cs) THEN <<"Hierarchy coverage">> ELSE <<>>)
    \o (IF ~NoOrphan(cs) THEN <<"Orphaned chunks">> ELSE <<>>)

\* C14: the report passes exactly when the four thresholds hold, and fails with
\* one issue per violated threshold otherwise.
C14_PassIffFourThresholds ==
    pc = "judged" =>
        /\ verdict[1] <=> (SizeHolds(all_chunks) /\ ListsHold(all_chunks)
                              /\ NonFirstLinked(all_chunks) /\ NoOrphan(all_chunks))
        /\ verdict[2] = StatedIssues(all_chunks)

\* one chunk, first in its section and without a parent: two issues
C14_OrphanCountedTwice ==
    /\ pc = "judged"
    /\ all_chunks = <<ValidatedChunk(400, TRUE, None, 1)>>
    /\ verdict = <<FALSE, <<"Hierarchy coverage", "Orphaned chunks">>>>

\* no chunk at all: the report fails
C14_EmptyFails ==
    /\ pc = "judged"
    /\ all_chunks = <<>>
    /\ verdict[1] = FALSE

\* what the code does keep: for a batch that is not empty the report passes
\* exactly when the four thresholds hold
C14_PassIffNonEmpty ==
    (pc = "judged" /\ all_chunks # <<>>) =>
        (verdict[1] <=> (SizeHolds(all_chunks) /\ ListsHold(all_chunks)
                            /\ NonFirstLinked(all_chunks) /\ NoOrphan(all_chunks)))

\* nine chunks of ten in the band: the report passes
C14_NineOfTenPasses ==
    /\ pc = "judged"
    /\ Len(all_chunks) = 10
    /\ report.chunks_in_target_range = 9
    /\ verdict[1] = TRUE

(***************************************************************************)
(* SpecParse: parse_document applied to one document                       *)
(***************************************************************************)
IDAPA16 == [words |-> {"IDAPA", "16"}, ext |-> ".txt"]

ParseFiles == PipelineFiles \cup {IDAPA16}

JsonDocuments == SeqsUpTo(JsonLines, MaxJsonLines)

InitParse ==
    /\ pc = "parse_document"
    /\ ExtraIdle
    /\ filename \in ParseFiles
    /\ file_content \in Documents \cup JsonDocuments
    /\ doc_type = None
    /\ patterns = None
    /\ runs = <<>>
    /\ ChunkerIdle
    /\ MergerIdle
    /\ DedupIdle

\* parse_document on a reference list that _parse_reference_links accepts
ParseReferenceLinks ==
    /\ pc = "parse_document"
    /\ detect_document_type(LineTexts(file_content), filename) = REFERENCE_LINKS
    /\ reference_links_outcome(file_content, filename).raised = None
    /\ doc_type' = REFERENCE_LINKS
    /\ sections' = parse_reference_links(file_content, filename)
    /\ pc' = "parsed"
    /\ UNCHANGED <<filename, file_content, patterns, runs, merged_sections, chunkerVars,
                   dedupVars, extraVars>>

\* parse_document on a reference list: an exception leaves
\* _parse_reference_links and parse_document
ParseReferenceLinksRaises ==
    /\ pc = "parse_document"
    /\ detect_document_type(LineTexts(file_content), filename) = REFERENCE_LINKS
    /\ reference_links_outcome(file_content, filename).raised # None
    /\ doc_type' = REFERENCE_LINKS
    /\ exception' = reference_links_outcome(file_content, filename).raised
    /\ pc' = "raised"
    /\ UNCHANGED <<filename, file_content, patterns, runs, mergerVars, chunkerVars,
                   dedupVars, created_sections, validatorVars, otherVars>>

\* parse_document on any other document
ParseDocument ==
    /\ pc = "parse_document"
    /\ detect_document_type(LineTexts(file_content), filename) # REFERENCE_LINKS
    /\ doc_type' = detect_document_type(LineTexts(file_content), filename)
    /\ patterns' = section_patterns(doc_type')
    /\ created_sections' = parse_pass(file_content, filename).created
    /\ sections' = parse_document(file_content, filename)
    /\ pc' = "parsed"
    /\ UNCHANGED <<filename, file_content, runs, merged_sections, chunkerVars, dedupVars,
                   exception, validatorVars, otherVars>>

NextParse == ParseReferenceLinks \/ ParseReferenceLinksRaises \/ ParseDocument

SpecParse == InitParse /\ [][NextParse]_vars

(***************************************************************************)
(* Properties of parse_document                                            *)
(***************************************************************************)
\* the header lines of the administrative-code grammar
IdapaHeaders == {H100, H101, H102, H01, H01Scope, Ha}

\* the lines collected for the header at index i: up to the next header
RECURSIVE SectionLines(_, _, _)
SectionLines(lines, i, j) ==
    IF j > Len(lines) \/ lines[j] \in IdapaHeaders THEN SubSeq(lines, i, j - 1)
    ELSE SectionLines(lines, i, j + 1)

IsLicensing(s) ==
    s.section_number = "100" /\ s.title = <<"LICENSING">> /\ s.level = 1

HasLicensingHeader == \E i \in DOMAIN file_content : file_content[i] = H100

\* C11 as stated: "IDAPA 16.txt" with the header line "100. LICENSING." is
\* detected as administrative code and the output holds Section 100,
\* LICENSING, level 1, whatever follows the header.
C11_AsStated ==
    (pc = "parsed" /\ filename = IDAPA16 /\ HasLicensingHeader) =>
        /\ doc_type = IDAPA
        /\ \E k \in DOMAIN sections : IsLicensing(sections[k])

\* C11 (amended): the type is administrative code, and the output holds
\* Section 100, LICENSING, level 1 exactly when some header line
\* "100. LICENSING." together with the lines up to the next header is more
\* than 100 characters long.
C11_SectionIffAboveFloor ==
    (pc = "parsed" /\ filename = IDAPA16 /\ HasLicensingHeader) =>
        /\ doc_type = IDAPA
        /\ (\E k \in DOMAIN sections : IsLicensing(sections[k]))
           <=> (\E i \in DOMAIN file_content :
                   /\ file_content[i] = H100
                   /\ TextChars(StripText(SectionLines(file_content, i, i + 1))) > 100)

\* the header followed by one short paragraph: Section 100 is in the output
C11_Witness ==
    /\ pc = "parsed"
    /\ filename = IDAPA16
    /\ file_content = <<H100, B30>>
    /\ Len(sections) = 1
    /\ IsLicensing(sections[1])

\* C12: every Section made in a pass that has a parent set has a Section of
\* that number, of a strictly lower level, made earlier in the pass, whose
\* children hold the Section's number; and every number in the children of a
\* Section is the number of a Section made later in the pass whose parent is
\* that Section.
C12_ParentChildConsistent ==
    /\ \A i \in DOMAIN created_sections :
           LET S == created_sections[i] IN
           S.parent_section # None =>
               \E j \in 1..(i - 1) :
                   LET P == created_sections[j] IN
                   /\ P.section_number = S.parent_section
                   /\ P.level < S.level
                   /\ \E c \in DOMAIN P.children : P.children[c] = S.section_number
    /\ \A j \in DOMAIN created_sections :
           LET P == created_sections[j] IN
           \A c \in DOMAIN P.children :
               \E i \in (j + 1)..Len(created_sections) :
                   /\ created_sections[i].section_number = P.children[c]
                   /\ created_sections[i].parent_section = P.section_number
                   /\ created_sections[i].level = P.level + 1

\* a pass that made a Section, a subsection and an item below it
C12_Witness ==
    /\ pc = "parsed"
    /\ Len(created_sections) = 3
    /\ created_sections[1].children = <<"01">>
    /\ created_sections[2].parent_section = "100"
    /\ created_sections[2].children = <<"a">>
    /\ created_sections[3].parent_section = "01"

\* the text is a JSON list of objects
WellFormedList(text) ==
    /\ json_loads(text).type = "list"
    /\ \A i \in 2..(Len(text) - 1) : text[i] \in {JTitled, JUntitled}

\* C13: for the reference-list grammar an input that is not a list of record
\* objects gives the empty Section list and no exception, and the i-th record
\* of a well-formed list becomes the level-1 Section REF-i.
C13_MalformedGivesEmpty ==
    (pc \in {"parsed", "raised"} /\ doc_type = REFERENCE_LINKS) =>
        /\ pc = "parsed"
        /\ ~WellFormedList(file_content) => sections = <<>>
        /\ WellFormedList(file_content) =>
               /\ Len(sections) = Len(file_content) - 2
               /\ \A i \in DOMAIN sections :
                      /\ sections[i].section_number = RefNumbers[i]
                      /\ sections[i].level = 1
                      /\ sections[i].content = json_dumps(file_content[i + 1])

\* valid JSON that is a list holding a number: AttributeError leaves the parser
C13_ListOfNumberRaises ==
    /\ pc = "raised"
    /\ file_content = <<JOpen, JNumber, JClose>>
    /\ exception = "AttributeError"

\* what the code does keep: text that is not JSON gives the empty list, and a
\* well-formed list gives the Sections REF-001, REF-002, ... in order
C13_DecodeErrorAndWellFormed ==
    (pc = "parsed" /\ doc_type = REFERENCE_LINKS) =>
        /\ json_loads(file_content).type = "JSONDecodeError" => sections = <<>>
        /\ WellFormedList(file_content) =>
               /\ Len(sections) = Len(file_content) - 2
               /\ \A i \in DOMAIN sections :
                      /\ sections[i].section_number = RefNumbers[i]
                      /\ sections[i].level = 1

C13_WellFormedReached ==
    /\ pc = "parsed"
    /\ doc_type = REFERENCE_LINKS
    /\ file_content = <<JOpen, JTitled, JUntitled, JClose>>
    /\ Len(sections) = 2

(***************************************************************************)
(* Properties of process_document                                          *)
(***************************************************************************)
\* the section numbers of the chunks of a result.  (A chunk_id has the form
\* CHK_<number>_<position>_<digest> and is never a section number.)
OutputSections(result) == {result[i].section_number : i \in DOMAIN result}

\* C3: every chunk of a result whose parent_chunk_id is set names a section
\* that has a chunk in the same result.
C3_ParentInOutput ==
    \A k \in DOMAIN runs : \A i \in DOMAIN runs[k] :
        runs[k][i].parent_chunk_id # None =>
            runs[k][i].parent_chunk_id \in OutputSections(runs[k])

\* the parent was dropped by the parser for being at most 100 characters long
C3_ParentDroppedByFloor ==
    /\ file_content = <<H100, H01>>
    /\ Len(runs) >= 1
    /\ Len(runs[1]) = 1
    /\ runs[1][1].section_number = "01"
    /\ runs[1][1].parent_chunk_id = "100"

\* the parent was folded by the merger into the section before it
C3_ParentFolded ==
    /\ file_content = <<H101, H102, H01>>
    /\ Len(runs) >= 1
    /\ OutputSections(runs[1]) = {"101", "01"}
    /\ \E i \in DOMAIN runs[1] : runs[1][i].parent_chunk_id = "102"

ChunkKey(c) == <<c.source_document, c.section_number, c.position_in_section>>

NameWords == {"IDAPA", "idapa", "TITLE", "39", "Food", "Code", "ADA", "Nevada", "rules"}

SampleLines ==
    {"IDAPA 16.03.22.100", "100. LICENSING.", "39-3301. DEFINITIONS", "TITLE 39",
     "3-201.11 Temperature", "Food Code", "4.1.1 Application",
     "ADA Accessibility Guidelines", "Overview of the requirements."}

FileNames ==
    { [words |-> W, ext |-> e] :
        W \in {X \in SUBSET NameWords : Cardinality(X) <= MaxNameWords},
        e \in {".txt", ".json"} }

SampleContents == {X \in SUBSET SampleLines : Cardinality(X) <= MaxContentLines}

InitDetect ==
    /\ pc = "parse_document"
    /\ ExtraIdle
    /\ filename \in FileNames
    /\ file_content \in SampleContents
    /\ doc_type = None
    /\ patterns = None
    /\ runs = <<>>
    /\ ChunkerIdle
    /\ MergerIdle
    /\ DedupIdle

\* parse_document, a reference-list document: handed to _parse_reference_links
\* before any section pattern is selected
DetectReferenceLinks ==
    /\ pc = "parse_document"
    /\ detect_document_type(file_content, filename) = REFERENCE_LINKS
    /\ doc_type' = REFERENCE_LINKS
    /\ pc' = "parse_reference_links"
    /\ UNCHANGED <<filename, file_content, patterns, chunkerVars, mergerVars, dedupVars, runs, extraVars>>

\* parse_document, any other document: the section patterns are selected
SelectPatterns ==
    /\ pc = "parse_document"
    /\ detect_document_type(file_content, filename) # REFERENCE_LINKS
    /\ doc_type' = detect_document_type(file_content, filename)
    /\ patterns' = section_patterns(doc_type')
    /\ pc' = "parse_lines"
    /\ UNCHANGED <<filename, file_content, chunkerVars, mergerVars, dedupVars, runs, extraVars>>

NextDetect == DetectReferenceLinks \/ SelectPatterns

SpecDetect == InitDetect /\ [][NextDetect]_vars

(***************************************************************************)
(* Properties of type detection                                            *)
(***************************************************************************)
\* the types whose file-name hint the name carries
HintedTypes(name) ==
    {t \in {IDAPA, IDAHO_CODE, FDA_FOOD_CODE, ADA_GUIDELINES, REFERENCE_LINKS} :
        CASE t = IDAPA -> InLower("idapa", name)
          [] t = IDAHO_CODE -> InLower("title", name) /\ HasDigit(name)
          [] t = FDA_FOOD_CODE -> InLower("food", name) /\ InLower("code", name)
          [] t = ADA_GUIDELINES -> InLower("ada", name)
          [] t = REFERENCE_LINKS -> name.ext = ".json"}

\* the types with a content pattern found in the text
ContentTypes(text) ==
    {t \in {IDAPA, IDAHO_CODE, FDA_FOOD_CODE, ADA_GUIDELINES} :
        \E line \in text : TypePatternHits(t, line)}

TypeRank(t) == CHOOSE k \in 1..Len(TYPE_PATTERNS) : TYPE_PATTERNS[k] = t

\* C10: a file name containing "idapa" gives the administrative-code type
\* whatever else the name or the content holds; when a file-name hint matches
\* the type is a hinted one, whatever the content; with no hint the type is
\* the first in the fixed order whose content pattern matches; with nothing
\* matching the type is unknown, and the administrative-code section patterns
\* are selected.
C10_DetectPrecedence ==
    doc_type # None =>
        /\ (InLower("idapa", filename) => doc_type = IDAPA)
        /\ (HintedTypes(filename) # {} => doc_type \in HintedTypes(filename))
        /\ (HintedTypes(filename) = {} /\ ContentTypes(file_content) # {} =>
               /\ doc_type \in ContentTypes(file_content)
               /\ \A t \in ContentTypes(file_content) : TypeRank(doc_type) <= TypeRank(t))
        /\ (HintedTypes(filename) = {} /\ ContentTypes(file_content) = {} =>
               doc_type = UNKNOWN)
        /\ (doc_type = UNKNOWN =>
               /\ pc = "parse_lines"
               /\ patterns = [grammar |-> IDAPA, levels |-> SECTION_PATTERNS[IDAPA]])

\* "IDAPA ... food code.txt" with food-code content: detected as idapa
C10_Witness ==
    /\ doc_type = IDAPA
    /\ {"IDAPA", "Food", "Code"} \subseteq filename.words
    /\ ContentTypes(file_content) = {FDA_FOOD_CODE}

\* no hint and no content pattern: unknown, parsed with the idapa patterns
C10_WitnessUnknown ==
    /\ doc_type = UNKNOWN
    /\ patterns = [grammar |-> IDAPA, levels |-> SECTION_PATTERNS[IDAPA]]

(***************************************************************************)
(* RegulatoryDataPipeline.process_directory                                *)
(***************************************************************************)
MaxFiles == 2

\* "normalized = ' '.join(chunk.content.lower().split())" for a chunk of
\* process_document: the non-blank lines of its text in order (a line stands
\* for its words; no two lines of the catalog differ in case only)
normalize_text(chunk) == SelectSeq(ChunkText(chunk.content), LAMBDA l : ~IsBlank(l))

\* _deduplicate over the chunks of process_document
RECURSIVE batch_deduplicate_loop(_, _, _, _)
batch_deduplicate_loop(cs, i, seen_content, unique) ==
    IF i > Len(cs) THEN unique
    ELSE LET normalized == normalize_text(cs[i]) IN
         IF normalized \notin seen_content
         THEN batch_deduplicate_loop(cs, i + 1, seen_add(seen_content, normalized),
                                     Append(unique, cs[i]))
         ELSE batch_deduplicate_loop(cs, i + 1, seen_content, unique)

batch_deduplicate(cs) == batch_deduplicate_loop(cs, 1, {}, <<>>)

\* a plausible slip: the chunks of a document are compared, as they are added,
\* with what the documents before it left in all_chunks
extend_chunks_unseen(batch, document_chunks) ==
    batch \o SelectSeq(document_chunks,
                       LAMBDA c : \A i \in DOMAIN batch :
                                      normalize_text(batch[i]) # normalize_text(c))

\* "all_chunks.extend(chunks)"
extend_chunks(batch, document_chunks) == batch \o document_chunks

\* a file of the input directory: its name, what f.read() gives, and the
\* exception open() or f.read() raises on it (None when it reads)
File(name, content, error) == [name |-> name, content |-> content, error |-> error]

BatchNames ==
    { [words |-> {"IDAPA", "16.03.22"}, ext |-> ".txt"],
      [words |-> {"rules"}, ext |-> ".txt"],
      [words |-> {"IDAPA16"}, ext |-> ".txt"] }

BatchDocuments == {<<H100>>, <<H101>>, <<H01>>}

ReadErrors == {"PermissionError", "UnicodeDecodeError"}

Files ==
    { File(n, d, e) : n \in BatchNames, d \in BatchDocuments,
                      e \in {None} \cup ReadErrors }

\* the listings of a directory: files of different names, in any order
Directories ==
    { l \in {<<>>} \cup SeqsUpTo(Files, MaxFiles) :
        \A i, j \in DOMAIN l : i # j => l[i].name # l[j].name }

InitBatch ==
    /\ pc = "process_directory"
    /\ directory \in Directories
    /\ next_file = 1
    /\ output_file = None
    /\ StageIdle
    /\ RechunkIdle
    /\ SplitterIdle
    /\ created_sections = <<>>
    /\ exception = None
    /\ report = None
    /\ verdict = None
    /\ ChunkerIdle
    /\ MergerIdle
    /\ DedupIdle
    /\ ParserIdle

\* one turn of "for file_path in input_path.glob('*.txt')" on a file that reads
ProcessFile ==
    /\ pc = "process_directory"
    /\ next_file <= Len(directory)
    /\ directory[next_file].error = None
    /\ all_chunks' = extend_chunks(all_chunks,
                                   process_document(directory[next_file].content,
                                                    directory[next_file].name))
    /\ next_file' = next_file + 1
    /\ UNCHANGED <<pc, chunkerVars, mergerVars, deduplicator, unique_chunks, parserVars,
                   runs, created_sections, exception, validatorVars, directory,
                   output_file, stageVars, rechunkVars, splitterVars>>

\* one turn of the loop on a file that does not read: nothing in
\* process_directory catches what open() or f.read() raises
ReadRaises ==
    /\ pc = "process_directory"
    /\ next_file <= Len(directory)
    /\ directory[next_file].error # None
    /\ exception' = directory[next_file].error
    /\ pc' = "raised"
    /\ UNCHANGED <<chunkerVars, mergerVars, dedupVars, parserVars, runs,
                   created_sections, validatorVars, otherVars>>

\* after the loop: _deduplicate, validate_chunks, json.dump
FinishDirectory ==
    /\ pc = "process_directory"
    /\ next_file > Len(directory)
    /\ unique_chunks' = <<batch_deduplicate(all_chunks)>>
    /\ report' = validate_chunks(batch_deduplicate(all_chunks))
    /\ output_file' = batch_deduplicate(all_chunks)
    /\ pc' = "returned"
    /\ UNCHANGED <<chunkerVars, mergerVars, deduplicator, all_chunks, parserVars, runs,
                   created_sections, exception, verdict, directory, next_file,
                   stageVars, rechunkVars, splitterVars>>

NextBatch == ProcessFile \/ ReadRaises \/ FinishDirectory

SpecBatch == InitBatch /\ [][NextBatch]_vars

(***************************************************************************)
(* Properties of process_directory                                         *)
(***************************************************************************)
\* the chunks the files at the given positions of the listing give, each
\* processed alone
RECURSIVE ChunksOfFiles(_, _)
ChunksOfFiles(l, positions) ==
    IF positions = <<>> THEN <<>>
    ELSE process_document(l[Head(positions)].content, l[Head(positions)].name)
             \o ChunksOfFiles(l, Tail(positions))

\* the positions of the files that read, in listing order
ReadablePositions(l) ==
    SelectSeq([i \in 1..Len(l) |-> i], LAMBDA i : l[i].error = None)

\* C15 as stated: a file that cannot be read is skipped, and only it: the run
\* is not ended by the error, and when it is over the output written and the
\* quality report are those of the chunks of every file that reads.
C15_FailureSkipsOneDocument ==
    /\ pc # "raised"
    /\ pc = "returned" =>
           /\ all_chunks = ChunksOfFiles(directory, ReadablePositions(directory))
           /\ output_file = batch_deduplicate(all_chunks)
           /\ report = validate_chunks(output_file)

\* the failing input: a file that reads and gives a chunk, then one that does
\* not; the run is over with no output and no report
C15_BatchAborted ==
    /\ pc = "raised"
    /\ Len(directory) = 2
    /\ directory[1].error = None
    /\ directory[2].error = "UnicodeDecodeError"
    /\ all_chunks # <<>>
    /\ output_file = None
    /\ report = None

SectionObject(s, list_id) == [class |-> "Section", val |-> [s EXCEPT !.children = list_id]]
ListObject(items) == [class |-> "list", val |-> items]
ChunkObject(c, list_id) == [class |-> "Chunk", val |-> [c EXCEPT !.child_chunk_ids = list_id]]

\* the Section of identity id, as the value the operators above take
SectionValue(h, id) == [h[id].val EXCEPT !.children = h[@].val]

\* the same, carrying its identity: a Section the merger returns as it got it
\* still carries it, a Section the merger constructs does not
SectionWithIdentity(h, id) ==
    LET s == SectionValue(h, id) IN
    [section_number |-> s.section_number, title |-> s.title, content |-> s.content,
     level |-> s.level, parent_section |-> s.parent_section, children |-> s.children,
     source_file |-> s.source_file, effective_date |-> s.effective_date, oid |-> id]

ChunkValue(h, id) == [h[id].val EXCEPT !.child_chunk_ids = h[@].val]

StageFiles ==
    { [words |-> {"IDAPA", "16.03.22"}, ext |-> ".txt"],
      [words |-> {"rules"}, ext |-> ".txt"] }

InitStages ==
    /\ pc = "parse_document"
    /\ filename \in StageFiles
    /\ file_content \in Documents
    /\ doc_type = None
    /\ patterns = None
    /\ runs = <<>>
    /\ heap = <<>>
    /\ handed = <<>>
    /\ BatchIdle
    /\ RechunkIdle
    /\ SplitterIdle
    /\ created_sections = <<>>
    /\ exception = None
    /\ report = None
    /\ verdict = None
    /\ ChunkerIdle
    /\ MergerIdle
    /\ DedupIdle

\* "sections = self.parser.parse_document(content, filename)": each Section
\* returned is a new object with a children list of its own
StageParse ==
    /\ pc = "parse_document"
    /\ LET parsed == parse_document(file_content, filename) IN
       /\ heap' = [k \in 1..(2 * Len(parsed)) |->
                      IF k % 2 = 1 THEN SectionObject(parsed[(k + 1) \div 2], k + 1)
                      ELSE ListObject(parsed[k \div 2].children)]
       /\ handed' = [i \in 1..Len(parsed) |-> 2 * i - 1]
    /\ pc' = "clean"
    /\ UNCHANGED <<chunkerVars, mergerVars, dedupVars, parserVars, runs,
                   created_sections, exception, validatorVars, batchVars,
                   rechunkVars, splitterVars>>

\* "for section in sections: section.content = self.cleaner.clean(...)"
StageClean ==
    /\ pc = "clean"
    /\ heap' = [id \in DOMAIN heap |->
                   IF \E i \in DOMAIN handed : handed[i] = id
                   THEN [heap[id] EXCEPT !.val.content = clean(@)]
                   ELSE heap[id]]
    /\ pc' = "merge_small_sections"
    /\ UNCHANGED <<handed, chunkerVars, mergerVars, dedupVars, parserVars, runs,
                   created_sections, exception, validatorVars, batchVars,
                   rechunkVars, splitterVars>>

\* the positions of the Sections the merger constructed
ConstructedAt(merged) ==
    SelectSeq([i \in 1..Len(merged) |-> i], LAMBDA i : "oid" \notin DOMAIN merged[i])

\* how many of the first i Sections returned the merger constructed
ConstructedUpTo(merged, i) ==
    Cardinality({j \in 1..i : "oid" \notin DOMAIN merged[j]})

\* "sections = self._merge_small_sections(sections)": a Section of at least
\* MIN_CHUNK_WORDS is appended as it is, a merged one is a new Section whose
\* children list is a new list
StageMerge ==
    /\ pc = "merge_small_sections"
    /\ LET merged == merge_small_sections(
                         [i \in DOMAIN handed |-> SectionWithIdentity(heap, handed[i])])
           made == ConstructedAt(merged)
           n == Len(heap)
       IN  /\ heap' = heap \o
                   [k \in 1..(2 * Len(made)) |->
                       IF k % 2 = 1
                       THEN SectionObject(merged[made[(k + 1) \div 2]], n + k + 1)
                       ELSE ListObject(merged[made[k \div 2]].children)]
           /\ handed' = [i \in DOMAIN merged |->
                            IF "oid" \in DOMAIN merged[i] THEN merged[i].oid
                            ELSE n + 2 * ConstructedUpTo(merged, i) - 1]
    /\ pc' = "chunk_section"
    /\ UNCHANGED <<chunkerVars, mergerVars, dedupVars, parserVars, runs,
                   created_sections, exception, validatorVars, batchVars,
                   rechunkVars, splitterVars>>

\* the chunks of the Sections of the given identities, each with the identity
\* of the list _create_chunk passes as child_chunk_ids: "section.children"
RECURSIVE chunk_objects(_, _)
chunk_objects(h, ids) ==
    IF ids = <<>> THEN <<>>
    ELSE LET made == chunk_section(SectionValue(h, Head(ids))) IN
         [i \in DOMAIN made |-> ChunkObject(made[i], h[Head(ids)].val.children)]
             \o chunk_objects(h, Tail(ids))

\* "for section in sections: all_chunks.extend(chunk_section(section))"
StageChunk ==
    /\ pc = "chunk_section"
    /\ heap' = heap \o chunk_objects(heap, handed)
    /\ handed' = [i \in 1..Len(chunk_objects(heap, handed)) |-> Len(heap) + i]
    /\ pc' = "enrich_chunk"
    /\ UNCHANGED <<chunkerVars, mergerVars, dedupVars, parserVars, runs,
                   created_sections, exception, validatorVars, batchVars,
                   rechunkVars, splitterVars>>

\* "for chunk in all_chunks: self.tagger.enrich_chunk(chunk)": the attributes
\* of the chunk are assigned
StageEnrich ==
    /\ pc = "enrich_chunk"
    /\ heap' = [id \in DOMAIN heap |->
                   IF \E i \in DOMAIN handed : handed[i] = id
                   THEN [heap[id] EXCEPT !.val = enrich_chunk(@)]
                   ELSE heap[id]]
    /\ pc' = "returned"
    /\ UNCHANGED <<handed, chunkerVars, mergerVars, dedupVars, parserVars, runs,
                   created_sections, exception, validatorVars, batchVars,
                   rechunkVars, splitterVars>>

NextStages == StageParse \/ StageClean \/ StageMerge \/ StageChunk \/ StageEnrich

SpecStages == InitStages /\ [][NextStages]_vars

(***************************************************************************)
(* Properties of the phases of process_document                            *)
(***************************************************************************)
\* the phases together return what process_document returns
StagesReturnProcessDocument ==
    pc = "returned" =>
        [i \in DOMAIN handed |-> ChunkValue(heap, handed[i])]
            = process_document(file_content, filename)

\* a step leaves every object that exists as it is
ObjectsUnchanged == \A id \in DOMAIN heap : heap'[id] = heap[id]

\* no Chunk holds the list of a Section
NoSharedList ==
    \A c, s \in DOMAIN heap :
        heap[c].class = "Chunk" /\ heap[s].class = "Section"
            => heap[c].val.child_chunk_ids # heap[s].val.children

\* C16 as stated: no phase of process_document changes an object an earlier
\* phase made (each only makes new ones), and no Chunk shares its child list
\* with the Section it came from.
C16_NoStageMutates == [][ObjectsUnchanged /\ NoSharedList']_vars

\* the cleaner has changed the content of a Section the parser made
C16_SectionCleanedInPlace ==
    /\ pc = "merge_small_sections"
    /\ \E i \in DOMAIN handed :
           heap[handed[i]].val.content
               # parse_document(file_content, filename)[i].content

\* a Chunk holds the children list of the Section it was made from
C16_ChildListShared ==
    /\ pc = "returned"
    /\ \E c, s \in DOMAIN heap :
           /\ heap[c].class = "Chunk"
           /\ heap[s].class = "Section"
           /\ heap[c].val.child_chunk_ids = heap[s].val.children

\* the tagger has changed an attribute of a Chunk the chunker made
C16_ChunkEnrichedInPlace ==
    /\ pc = "returned"
    /\ \E i \in DOMAIN handed :
           heap[handed[i]].val.effective_date # None

(***************************************************************************)
(* SpecLists: chunk_section on Sections of list items of every ending,     *)
(* then validate_chunks on the chunks                                      *)
(***************************************************************************)
Item(txt, end) == [txt |-> txt, kind |-> "list", words |-> 300, tail |-> 300, end |-> end]

EndingLines ==
    { Blank,
      [txt |-> "P600", kind |-> "text", words |-> 600, tail |-> 25, end |-> "!"],
      [txt |-> "P300", kind |-> "text", words |-> 300, tail |-> 300, end |-> "none"],
      Item("(a) ... of the facility.", "."),
      Item("(a) ... of the facility;", ";"),
      Item("(a) The following:", ":"),
      Item("- Is the facility licensed?", "?"),
      Item("(a) ... of the facility", "none"),
      Item("(a) ... of the facility, and", "none"),
      ItemDated,
      ItemEff }

ListSections ==
    { Section("100", <<"TEST">>, c, 1, None, <<>>, "test.txt") :
        c \in SeqsUpTo(EndingLines, MaxLines) }

InitLists ==
    /\ pc = "chunk_section"
    /\ ExtraIdle
    /\ section \in ListSections
    /\ chunks = <<>>
    /\ MergerIdle
    /\ DedupIdle
    /\ ParserIdle

\* "report = self.validator.validate_chunks(chunks)" on the chunks of the
\* Section
ValidateChunked ==
    /\ pc = "chunked"
    /\ report' = validate_chunks(chunks)
    /\ pc' = "validated"
    /\ UNCHANGED <<chunkerVars, mergerVars, dedupVars, parserVars, runs,
                   created_sections, exception, verdict, otherVars>>

NextLists == ChunkSection \/ ValidateChunked

SpecLists == InitLists /\ [][NextLists]_vars

\* the last non-blank line of the text is a list item that ends in none of
\* . ; : ! ? ) ] (an effective-date notation ends in ) or ])
EndsMidList(text) ==
    \E k \in DOMAIN text :
        /\ ~IsBlank(text[k])
        /\ \A j \in (k + 1)..Len(text) : IsBlank(text[j])
        /\ text[k].kind = "list"
        /\ text[k].end \notin {".", ";", ":", "!", "?", ")", "]"}

C17_WitnessDated ==
    /\ pc = "validated"
    /\ Len(chunks) = 1
    /\ LastNonBlank(ChunkText(chunks[1].content)) = ItemDated
    /\ chunks[1].has_complete_lists
    /\ report.chunks_with_split_lists = 0

(***************************************************************************)
(* Properties of chunk_section: a Section of the target range              *)
(***************************************************************************)
InTargetRange(s) == MIN_CHUNK_WORDS <= word_count(s) /\ word_count(s) <= MAX_CHUNK_WORDS

\* one chunk, 1 of 1, holding the content of the Section
OneChunkOfWholeSection ==
    /\ Len(chunks) = 1
    /\ chunks[1].position_in_section = 1
    /\ chunks[1].total_in_section = 1
    /\ ChunkText(chunks[1].content) = section.content

\* C18 as stated: a Section of 400 to 800 words is emitted as one chunk, 1 of
\* 1, holding the content of the Section, with semantic_boundary section_end.
C18_InRangeIsSectionEnd ==
    pc = "chunked" /\ InTargetRange(section) =>
        /\ OneChunkOfWholeSection
        /\ chunks[1].semantic_boundary = "section_end"

\* what the code does: the chunk is the whole Section, and its boundary is
\* sentence_end when the content ends in a full stop, section_end otherwise
C18_InRangeBoundaryByFullStop ==
    pc = "chunked" /\ InTargetRange(section) =>
        /\ OneChunkOfWholeSection
        /\ chunks[1].semantic_boundary =
               IF \E k \in DOMAIN section.content :
                      /\ section.content[k].end = "."
                      /\ \A j \in (k + 1)..Len(section.content) :
                             IsBlank(section.content[j])
               THEN "sentence_end" ELSE "section_end"

\* the failing input: a Section of 400 words whose last paragraph ends in a
\* full stop is tagged sentence_end
C18_SentenceEnd ==
    /\ pc = "chunked"
    /\ word_count(section) = 400
    /\ Len(chunks) = 1
    /\ chunks[1].semantic_boundary = "sentence_end"

(***************************************************************************)
(* rechunk_idaho.main: re-chunk the target files and update the stored     *)
(* chunks                                                                  *)
(*                                                                         *)
(* A stored chunk is a dict: keys tells which of the optional keys it has. *)
(* topic_tags is a set (list(set(...)) has no fixed order).                *)
(***************************************************************************)
MaxStored == 3

IDAPA16txt == [words |-> {"IDAPA", "16"}, ext |-> ".txt"]
Arizona == [words |-> {"Arizona"}, ext |-> ".txt"]
NoFile == [words |-> {}, ext |-> ""]

\* "idaho_files_to_rechunk = [...]"
idaho_files_to_rechunk == <<IDAPA16txt>>

Range(f) == {f[i] : i \in DOMAIN f}

ChunkDict(keys, id, text, number, position, source_file, source_document, tags, facilities, citation, citations, embedding) ==
    [keys |-> keys, chunk_id |-> id, content |-> text, section_number |-> number,
     position_in_section |-> position, source_file |-> source_file,
     source_document |-> source_document, topic_tags |-> tags,
     facility_types |-> facilities, citation |-> citation, citations |-> citations,
     embedding |-> embedding]

\* a plausible slip: only source_document is looked at
chunk_source_document_only(chunk) ==
    IF "source_document" \in chunk.keys THEN chunk.source_document ELSE NoFile

\* "chunk.get('source_file', chunk.get('source_document', ''))"
chunk_source(chunk) ==
    IF "source_file" \in chunk.keys THEN chunk.source_file
    ELSE IF "source_document" \in chunk.keys THEN chunk.source_document
    ELSE NoFile

\* the loop that fills old_idaho_chunks
old_idaho_chunks(all) ==
    SelectSeq(all, LAMBDA c : chunk_source(c) \in Range(idaho_files_to_rechunk))

\* the loop that fills other_chunks
kept_chunks(all) ==
    SelectSeq(all, LAMBDA c : chunk_source(c) \notin Range(idaho_files_to_rechunk))

\* the entry of old_metadata_by_section made from one old chunk
old_metadata(chunk) ==
    [citations |-> IF "citation" \in chunk.keys
                   THEN IF chunk.citations # <<>> THEN chunk.citations
                        ELSE <<chunk.citation>>
                   ELSE <<>>,
     topic_tags |-> chunk.topic_tags,
     facility_types |-> chunk.facility_types]

\* old_metadata_by_section.get(section): of the first old chunk of the
\* section; <<>> when the section is empty or has no old chunk
old_metadata_by_section(old, number) ==
    IF number = "" \/ ~\E i \in DOMAIN old : old[i].section_number = number THEN <<>>
    ELSE LET first == CHOOSE i \in DOMAIN old :
                          /\ old[i].section_number = number
                          /\ \A j \in 1..(i - 1) : old[j].section_number # number
         IN  <<old_metadata(old[first])>>

\* extract_idaho_citations(content): what the three patterns find in the
\* lines of the catalog
extract_idaho_citations(text) ==
    IF \E k \in DOMAIN text : text[k] = H39 THEN <<"Idaho Code 39-3301">> ELSE <<>>

\* the body of "for chunk in chunks": to_dict, the Idaho fields, what is
\* carried forward from the old chunk of the section, the citations
new_chunk_dict(chunk, name, old) ==
    LET old_meta == old_metadata_by_section(old, chunk.section_number)
        carried == IF old_meta # <<>> THEN old_meta[1]
                   ELSE [citations |-> <<>>, topic_tags |-> {}, facility_types |-> <<>>]
        text == ChunkText(chunk.content)
    IN  ChunkDict({"source_file", "source_document"}, chunk.chunk_id, text,
                  chunk.section_number, chunk.position_in_section, name, name,
                  IF carried.topic_tags # {}
                  THEN Range(chunk.topic_tags) \cup carried.topic_tags
                  ELSE Range(chunk.topic_tags),
                  IF carried.facility_types # <<>> THEN carried.facility_types
                  ELSE chunk.facility_types,
                  "",
                  IF carried.citations # <<>> THEN carried.citations
                  ELSE extract_idaho_citations(text),
                  <<>>)

\* "for filename in idaho_files_to_rechunk": a missing file is passed over
RECURSIVE rechunk_files(_, _, _)
rechunk_files(files, raw, old) ==
    IF files = <<>> THEN <<>>
    ELSE LET name == Head(files)
             made == IF raw[name] = <<>> THEN <<>>
                     ELSE process_document(raw[name][1], name)
         IN  [i \in DOMAIN made |-> new_chunk_dict(made[i], name, old)]
                 \o rechunk_files(Tail(files), raw, old)

\* embedding_generator.generate_embeddings: the vector of a text, by the
\* external service
generate_embedding(text) == <<"embedding", text>>

\* "merged_chunks = other_chunks + new_chunks"
merge_chunks(others, made) == others \o made

\* the chunks the store may hold: of the target file (written by
\* txt_processor, by an earlier run of this script, by process_directory) and
\* of other files
StoredChunks ==
    { ChunkDict({"source_file", "citation"}, <<"OLD", 1>>, <<B30>>, "101", 1,
                IDAPA16txt, NoFile, {"admission"}, <<"ALF">>, "IDAPA 16.03.22.101",
                <<>>, <<"embedding", <<B30>>>>),
      ChunkDict({"source_file", "source_document"}, <<"OLD", 2>>, <<H01Scope>>, "01", 1,
                IDAPA16txt, IDAPA16txt, {}, <<>>, "", <<>>, <<"embedding", <<H01Scope>>>>),
      ChunkDict({"source_document"}, <<"OLD", 3>>, <<B450>>, "152", 1,
                NoFile, IDAPA16txt, {"general"}, <<"All">>, "", <<>>, <<>>),
      ChunkDict({"source_file"}, <<"OLD", 4>>, <<B30>>, "R9-10-801", 1,
                Arizona, NoFile, {"general"}, <<"All">>, "", <<>>,
                <<"embedding", <<B30>>>>),
      ChunkDict({"source_document"}, <<"OLD", 5>>, <<H01Scope>>, "101", 1,
                NoFile, Arizona, {"staffing"}, <<"All">>, "", <<>>, <<>>),
      ChunkDict({"source_file", "source_document"}, <<"OLD", 6>>, <<B450>>, "101", 2,
                Arizona, Arizona, {}, <<>>, "", <<>>, <<"embedding", <<B450>>>>) }

RawContents == {<<H101>>, <<H01>>, <<H101, H01>>, <<H100>>}

InitRechunk ==
    /\ pc = "load"
    /\ chunks_file \in {<<>>} \cup SeqsUpTo(StoredChunks, MaxStored)
    /\ backup_file = None
    /\ raw_dir \in [Range(idaho_files_to_rechunk) ->
                       {<<>>} \cup {<<d>> : d \in RawContents}]
    /\ api_key \in BOOLEAN
    /\ other_chunks = <<>>
    /\ new_chunks = <<>>
    /\ BatchIdle
    /\ StageIdle
    /\ SplitterIdle
    /\ created_sections = <<>>
    /\ exception = None
    /\ report = None
    /\ verdict = None
    /\ ChunkerIdle
    /\ MergerIdle
    /\ DedupIdle
    /\ ParserIdle

\* json.load of the stored chunks and the split into old and other chunks
LoadAndSplit ==
    /\ pc = "load"
    /\ all_chunks' = chunks_file
    /\ other_chunks' = kept_chunks(chunks_file)
    /\ pc' = "process_files"
    /\ UNCHANGED <<chunkerVars, mergerVars, deduplicator, unique_chunks, parserVars,
                   runs, created_sections, exception, validatorVars, batchVars,
                   stageVars, splitterVars, chunks_file, backup_file, raw_dir, api_key, new_chunks>>

\* the loop over the target files
RechunkFiles ==
    /\ pc = "process_files"
    /\ new_chunks' = rechunk_files(idaho_files_to_rechunk, raw_dir,
                                   old_idaho_chunks(all_chunks))
    /\ pc' = "embeddings"
    /\ UNCHANGED <<chunkerVars, mergerVars, dedupVars, parserVars,
                   runs, created_sections, exception, validatorVars, batchVars,
                   stageVars, splitterVars, chunks_file, backup_file, raw_dir, api_key, other_chunks>>

\* "if not api_key: print(...); return": nothing is written
NoApiKey ==
    /\ pc = "embeddings"
    /\ ~api_key
    /\ pc' = "returned"
    /\ UNCHANGED <<chunkerVars, mergerVars, dedupVars, parserVars,
                   runs, extraVars>>

\* the embedding of every new chunk
GenerateEmbeddings ==
    /\ pc = "embeddings"
    /\ api_key
    /\ new_chunks' = [i \in DOMAIN new_chunks |->
                         [new_chunks[i] EXCEPT
                             !.embedding = generate_embedding(new_chunks[i].content)]]
    /\ pc' = "update"
    /\ UNCHANGED <<chunkerVars, mergerVars, dedupVars, parserVars,
                   runs, created_sections, exception, validatorVars, batchVars,
                   stageVars, splitterVars, chunks_file, backup_file, raw_dir, api_key, other_chunks>>

\* the backup of what was loaded, then the merged chunks written over the
\* stored ones
SaveChunks ==
    /\ pc = "update"
    /\ backup_file' = all_chunks
    /\ chunks_file' = merge_chunks(other_chunks, new_chunks)
    /\ pc' = "done"
    /\ UNCHANGED <<chunkerVars, mergerVars, dedupVars, parserVars,
                   runs, created_sections, exception, validatorVars, batchVars,
                   stageVars, splitterVars, raw_dir, api_key, other_chunks, new_chunks>>

NextRechunk ==
    LoadAndSplit \/ RechunkFiles \/ NoApiKey \/ GenerateEmbeddings \/ SaveChunks

SpecRechunk == InitRechunk /\ [][NextRechunk]_vars

(***************************************************************************)
(* Properties of the re-chunk workflow                                     *)
(***************************************************************************)
\* the file a stored chunk is of: its source_file when it has one, its
\* source_document otherwise
SourceOf(c) ==
    IF "source_file" \in c.keys THEN c.source_file
    ELSE IF "source_document" \in c.keys THEN c.source_document ELSE NoFile

OfTarget(c) == \E k \in DOMAIN idaho_files_to_rechunk : SourceOf(c) = idaho_files_to_rechunk[k]

\* the chunks the target files give now, in the order of the target list
RECURSIVE ChunksOfTargets(_)
ChunksOfTargets(files) ==
    IF files = <<>> THEN <<>>
    ELSE (IF raw_dir[Head(files)] = <<>> THEN <<>>
          ELSE process_document(raw_dir[Head(files)][1], Head(files)))
             \o ChunksOfTargets(Tail(files))

\* C19: what the workflow writes holds the stored chunks of the other files
\* as they were and in their order, and for the target files the chunks made
\* from their present content and nothing else: no stored chunk of a target
\* file is left.  backup_file is what was stored before.
C19_RechunkReplacesTargets ==
    pc = "done" =>
        LET others == SelectSeq(chunks_file, LAMBDA c : ~OfTarget(c))
            targets == SelectSeq(chunks_file, LAMBDA c : OfTarget(c))
            made == ChunksOfTargets(idaho_files_to_rechunk)
        IN  /\ others = SelectSeq(backup_file, LAMBDA c : ~OfTarget(c))
            /\ Len(targets) = Len(made)
            /\ \A i \in DOMAIN targets :
                   /\ targets[i].chunk_id = made[i].chunk_id
                   /\ targets[i].content = ChunkText(made[i].content)
                   /\ targets[i].section_number = made[i].section_number
                   /\ targets[i].embedding = <<"embedding", targets[i].content>>

\* stored: a chunk of another file between two chunks of the target file, one
\* of them with a source_file key only; written: the other chunk, then the
\* two chunks of the present content
C19_Witness ==
    /\ pc = "done"
    /\ Len(backup_file) = 3
    /\ OfTarget(backup_file[1]) /\ ~OfTarget(backup_file[2]) /\ OfTarget(backup_file[3])
    /\ "source_document" \notin backup_file[1].keys
    /\ Len(chunks_file) = 3
    /\ chunks_file[1] = backup_file[2]
    /\ OfTarget(chunks_file[2]) /\ OfTarget(chunks_file[3])

(***************************************************************************)
(* Properties of _create_chunk: the semantic boundary                      *)
(***************************************************************************)
\* the last character of the content that is not whitespace
LastCharacter(c) ==
    LET text == ChunkText(c.content) IN
    IF \E k \in DOMAIN text : ~IsBlank(text[k])
    THEN text[CHOOSE k \in DOMAIN text :
                  /\ ~IsBlank(text[k])
                  /\ \A j \in (k + 1)..Len(text) : IsBlank(text[j])].end
    ELSE "none"

\* C23 as stated: sentence_end for a content that ends in . ! or ?; otherwise
\* section_end for the last chunk of the Section; otherwise paragraph_end.
C23_BoundaryByTerminalPunctuation ==
    \A i \in DOMAIN chunks :
        chunks[i].semantic_boundary =
            IF LastCharacter(chunks[i]) \in {".", "!", "?"} THEN "sentence_end"
            ELSE IF chunks[i].position_in_section = chunks[i].total_in_section
            THEN "section_end"
            ELSE "paragraph_end"

\* what the code does: only the full stop gives sentence_end
C23_BoundaryByFullStop ==
    \A i \in DOMAIN chunks :
        chunks[i].semantic_boundary =
            IF LastCharacter(chunks[i]) = "." THEN "sentence_end"
            ELSE IF chunks[i].position_in_section = chunks[i].total_in_section
            THEN "section_end"
            ELSE "paragraph_end"

\* the failing input: a content that ends in an exclamation mark, tagged
\* section_end
C23_ExclamationIsSectionEnd ==
    /\ pc = "chunked"
    /\ Len(chunks) = 1
    /\ LastCharacter(chunks[1]) = "!"
    /\ chunks[1].semantic_boundary = "section_end"

\* a split Section: a chunk that is not the last and ends in no full stop is
\* tagged paragraph_end
C23_ParagraphEnd ==
    /\ pc = "chunked"
    /\ Len(chunks) >= 2
    /\ chunks[1].semantic_boundary = "paragraph_end"

(***************************************************************************)
(* Properties of _split_large_section                                      *)
(***************************************************************************)
\* the pieces of a chunk that are units, in order
UnitsOf(c) == SelectSeq(c.content, LAMBDA p : p.kind = "unit")

\* C26: a Section of at most ABSOLUTE_MAX_WORDS words is returned as one
\* chunk, also on the split path (150 to 399 and 801 to 1200 words): a chunk
\* is closed only when the words gathered and the next unit exceed 1200.
C26_OneChunkUpToAbsoluteMax ==
    pc = "chunked" /\ word_count(section) <= ABSOLUTE_MAX_WORDS => Len(chunks) = 1

\* the split path on 801 to 1200 words in several units: one chunk
C26_Witness ==
    /\ pc = "chunked"
    /\ word_count(section) > MAX_CHUNK_WORDS
    /\ word_count(section) <= ABSOLUTE_MAX_WORDS
    /\ Len(chunks) = 1
    /\ Len(UnitsOf(chunks[1])) >= 2

\* the split path on 150 to 399 words in several units: one chunk
C26_WitnessSmall ==
    /\ pc = "chunked"
    /\ word_count(section) >= ABSOLUTE_MIN_WORDS
    /\ word_count(section) < MIN_CHUNK_WORDS
    /\ Len(chunks) = 1
    /\ Len(UnitsOf(chunks[1])) >= 2

\* C27: a chunk of more than ABSOLUTE_MAX_WORDS words consists of one unit,
\* with or without overlap text before it; a chunk of two or more units has
\* at most 1200 words, its overlap text counted.
C27_OverMaxOnlySingleUnit ==
    \A i \in DOMAIN chunks :
        /\ chunks[i].word_count = WordCount(ChunkText(chunks[i].content))
        /\ chunks[i].word_count > ABSOLUTE_MAX_WORDS => Len(UnitsOf(chunks[i])) = 1
        /\ Len(UnitsOf(chunks[i])) >= 2 => chunks[i].word_count <= ABSOLUTE_MAX_WORDS

\* a second chunk of overlap text and one unit, of more than 1200 words
C27_Witness ==
    /\ pc = "chunked"
    /\ Len(chunks) = 2
    /\ chunks[2].word_count > ABSOLUTE_MAX_WORDS
    /\ Len(chunks[2].content) = 2
    /\ chunks[2].content[1].kind = "overlap"

\* a chunk of two units on the split path, of 1200 words at most
C27_WitnessTwoUnits ==
    /\ pc = "chunked"
    /\ word_count(section) > MAX_CHUNK_WORDS
    /\ \E i \in DOMAIN chunks : Len(UnitsOf(chunks[i])) = 2

(***************************************************************************)
(* SpecSplit: chunk_section on Sections given as paragraphs and list       *)
(* blocks separated by blank lines                                         *)
(***************************************************************************)
MaxUnits == 3
MaxSmallUnits == 13

\* paragraphs of at most 100 words, one sentence each
S100 == [txt |-> "S100", kind |-> "text", words |-> 100, tail |-> 100, end |-> "."]
S80 == [txt |-> "S80", kind |-> "text", words |-> 80, tail |-> 80, end |-> "."]

\* the lines of SpecSplit: a paragraph of two sentences in 40 words, one of
\* 600 words whose last sentence has 25, one of 600 words that ends in 25
\* words after its last full stop, paragraphs without a sentence break, a
\* list block
SplitLines ==
    { [txt |-> "S40", kind |-> "text", words |-> 40, tail |-> 15, end |-> "."],
      S100,
      [txt |-> "P600", kind |-> "text", words |-> 600, tail |-> 25, end |-> "!"],
      [txt |-> "F600", kind |-> "text", words |-> 600, tail |-> 25, end |-> "none"],
      [txt |-> "P601", kind |-> "text", words |-> 601, tail |-> 601, end |-> "none"],
      [txt |-> "P1201", kind |-> "text", words |-> 1201, tail |-> 1201, end |-> "."],
      [txt |-> "L700", kind |-> "list", words |-> 700, tail |-> 700, end |-> ";"] }

\* '\n\n'.join of one-line paragraphs
Paragraphs(units) ==
    [k \in 1..(2 * Len(units) - 1) |-> IF k % 2 = 1 THEN units[(k + 1) \div 2] ELSE Blank]

SplitSections ==
    { Section("400", <<"STAFFING">>, Paragraphs(u), 1, None, <<>>, "test.txt") :
        u \in SeqsUpTo(SplitLines, MaxUnits) \cup SeqsUpTo({S80, S100}, MaxSmallUnits) }

InitSplit ==
    /\ pc = "chunk_section"
    /\ ExtraIdle
    /\ section \in SplitSections
    /\ chunks = <<>>
    /\ MergerIdle
    /\ DedupIdle
    /\ ParserIdle

NextSplit == ChunkSection

SpecSplit == InitSplit /\ [][NextSplit]_vars

SmallUnits == \A k \in DOMAIN section.content : section.content[k].words <= 100

InTarget(c) == MIN_CHUNK_WORDS <= c.word_count /\ c.word_count <= MAX_CHUNK_WORDS

NumberInTarget == Cardinality({i \in DOMAIN chunks : InTarget(chunks[i])})

UnitLinesOf(c) == Concat([k \in DOMAIN UnitsOf(c) |-> UnitsOf(c)[k].idx])

UnitLinesOfChunks == Concat([i \in DOMAIN chunks |-> UnitLinesOf(chunks[i])])

\* the units of the chunks, chunk after chunk
UnitsOfChunks ==
    Concat([i \in DOMAIN chunks |->
               [k \in DOMAIN UnitsOf(chunks[i]) |-> UnitsOf(chunks[i])[k].idx]])

OnSplitPath(s) ==
    /\ ~(MIN_CHUNK_WORDS <= word_count(s) /\ word_count(s) <= MAX_CHUNK_WORDS)
    /\ word_count(s) >= ABSOLUTE_MIN_WORDS

\* C28: the chunks of a split Section partition its atomic units in order:
\* the units of the chunks, chunk after chunk, are the units of the Section,
\* each once and in their order, so every line that is not blank is in one unit
\* of one chunk; the i-th chunk has position_in_section i and total_in_section
\* the number of chunks.
C28_UnitsPartitionedInOrder ==
    pc = "chunked" /\ OnSplitPath(section) =>
        /\ UnitsOfChunks
               = split_into_units(section.content, identify_list_blocks(section.content))
        /\ LET lines == UnitLinesOfChunks IN
           /\ \A a \in 1..(Len(lines) - 1) : lines[a] < lines[a + 1]
           /\ \A k \in DOMAIN section.content :
                  ~IsBlank(section.content[k]) => \E a \in DOMAIN lines : lines[a] = k
        /\ \A i \in DOMAIN chunks :
               /\ chunks[i].position_in_section = i
               /\ chunks[i].total_in_section = Len(chunks)
               /\ UnitsOf(chunks[i]) # <<>>

\* three units, three chunks, each of one unit, the second and the third after
\* overlap text
C28_Witness ==
    /\ pc = "chunked"
    /\ Len(chunks) = 3
    /\ \A i \in DOMAIN chunks : Len(UnitsOf(chunks[i])) = 1
    /\ chunks[3].position_in_section = 3
    /\ chunks[3].content[1].kind = "overlap"

(***************************************************************************)
(* Properties of the overlap text                                          *)
(***************************************************************************)
\* the text of the last unit of the chunk closed before chunk i
ClosedUnit(i) == Last(UnitsOf(chunks[i - 1])).text

\* the words after the last sentence break of a text, and whether it has one
SentenceBreak(u) == last_sentence(u, Len(u), 0)

Minimum(a, b) == IF a <= b THEN a ELSE b

\* chunk i begins with overlap text, followed by the new unit
BeginsWithOverlap(i) ==
    /\ Len(chunks[i].content) >= 2
    /\ chunks[i].content[1].kind = "overlap"
    /\ chunks[i].content[2].kind = "unit"

\* C24 as stated: every chunk after the first begins with overlap text taken
\* from the end of the chunk closed before it, followed by the new unit; the
\* overlap text is the last complete sentence of the closed chunk when it has
\* a sentence break, and its trailing OVERLAP_WORDS words otherwise.
C24_OverlapSentenceOrWords ==
    \A i \in 2..Len(chunks) :
        /\ BeginsWithOverlap(i)
        /\ LET overlap_words == WordCount(chunks[i].content[1].text)
               u == ClosedUnit(i)
           IN  IF SentenceBreak(u).found
               THEN /\ overlap_words = SentenceBreak(u).words
                    /\ LastNonBlank(u).end \in {".", "!", "?"}
               ELSE overlap_words = Minimum(OVERLAP_WORDS, WordCount(u))

\* what the code does: the overlap text comes from the last unit of the closed
\* chunk: the unit itself when it has at most OVERLAP_WORDS words, otherwise
\* what follows its last sentence break, complete sentence or not, otherwise
\* its trailing OVERLAP_WORDS words
C24_OverlapFromLastUnit ==
    \A i \in 2..Len(chunks) :
        /\ BeginsWithOverlap(i)
        /\ LET overlap_text == chunks[i].content[1].text
               u == ClosedUnit(i)
           IN  IF WordCount(u) <= OVERLAP_WORDS THEN overlap_text = u
               ELSE IF SentenceBreak(u).found
               THEN WordCount(overlap_text) = SentenceBreak(u).words
               ELSE WordCount(overlap_text) = OVERLAP_WORDS

\* the failing input: the closed chunk ends in a paragraph of two sentences in
\* 40 words, and the overlap text is the whole paragraph
C24_OverlapIsTwoSentences ==
    /\ pc = "chunked"
    /\ Len(chunks) = 2
    /\ SentenceBreak(ClosedUnit(2)).found
    /\ SentenceBreak(ClosedUnit(2)).words = 15
    /\ WordCount(chunks[2].content[1].text) = 40

\* the closed chunk ends in 25 words after its last full stop, and the overlap
\* text is these 25 words
C24_OverlapIsFragment ==
    /\ pc = "chunked"
    /\ Len(chunks) = 2
    /\ LastNonBlank(ClosedUnit(2)).end = "none"
    /\ SentenceBreak(ClosedUnit(2)).found
    /\ WordCount(chunks[2].content[1].text) = 25

(***************************************************************************)
(* Properties of the parent tracking of parse_document                     *)
(***************************************************************************)
\* whether line k of the document is a section header of the grammar
IsHeader(lines, k, pats) == first_match(pats, 1, lines[k]) # <<>>

\* the number of Section objects made by the first k lines
HeaderCount(lines, k, pats) == Cardinality({j \in 1..k : IsHeader(lines, j, pats)})

\* current_parents after the first k lines: for each tracked level, the index
\* in created_sections of the Section tracked
RECURSIVE tracked_parents(_, _, _)
tracked_parents(lines, k, pats) ==
    IF k = 0 THEN <<>>
    ELSE IF IsHeader(lines, k, pats)
    THEN track_parent(tracked_parents(lines, k - 1, pats),
                      first_match(pats, 1, lines[k])[1].level,
                      HeaderCount(lines, k, pats))
    ELSE tracked_parents(lines, k - 1, pats)

HeaderLevel(lines, k, pats) == first_match(pats, 1, lines[k])[1].level

\* the lines before line k that hold a header one level above the header of
\* line k with no header of a higher level of the hierarchy after them
ParentLines(lines, k, pats) ==
    {j \in 1..(k - 1) :
        /\ IsHeader(lines, j, pats)
        /\ HeaderLevel(lines, j, pats) = HeaderLevel(lines, k, pats) - 1
        /\ \A m \in (j + 1)..(k - 1) :
               IsHeader(lines, m, pats) =>
                   HeaderLevel(lines, m, pats) >= HeaderLevel(lines, k, pats) - 1}

\* the most recent of them
ParentLine(lines, k, pats) ==
    CHOOSE j \in ParentLines(lines, k, pats) :
        \A m \in ParentLines(lines, k, pats) : m <= j

ParsedByLines == pc = "parsed" /\ doc_type # REFERENCE_LINKS

\* C22: a header at level L > 1 receives as parent the most recent Section of
\* level L-1 when no header of a level below L-1 came after that Section, and
\* no parent otherwise; once a header of level L is processed no parent is
\* tracked at a level deeper than L.
C22_ParentIsLatestOpenLevelAbove ==
    ParsedByLines =>
        \A k \in DOMAIN file_content :
            IsHeader(file_content, k, patterns) =>
                LET L == HeaderLevel(file_content, k, patterns)
                    new_section == created_sections[HeaderCount(file_content, k, patterns)]
                    before == tracked_parents(file_content, k - 1, patterns)
                    after == tracked_parents(file_content, k, patterns)
                    candidates == ParentLines(file_content, k, patterns)
                IN  /\ \A l \in DOMAIN after : l <= L
                    /\ new_section.level = L
                    /\ IF L > 1 /\ candidates # {}
                       THEN LET j == ParentLine(file_content, k, patterns)
                                parent == HeaderCount(file_content, j, patterns)
                            IN  /\ (L - 1) \in DOMAIN before
                                /\ before[L - 1] = parent
                                /\ new_section.parent_section =
                                       created_sections[parent].section_number
                       ELSE /\ (L - 1) \notin DOMAIN before
                            /\ new_section.parent_section = None

\* a header of level 3 that follows a header of level 2 and then one of level
\* 1 has no parent
C22_Witness ==
    /\ ParsedByLines
    /\ \E k \in DOMAIN file_content :
           /\ IsHeader(file_content, k, patterns)
           /\ HeaderLevel(file_content, k, patterns) = 3
           /\ \E j \in 1..(k - 1) :
                  /\ IsHeader(file_content, j, patterns)
                  /\ HeaderLevel(file_content, j, patterns) = 2
           /\ created_sections[HeaderCount(file_content, k, patterns)].parent_section = None

\* headers of levels 1, 2 and 3 in a row: each is the parent of the next
C22_WitnessChain ==
    /\ ParsedByLines
    /\ Len(created_sections) = 3
    /\ created_sections[1].level = 1
    /\ created_sections[2].parent_section = created_sections[1].section_number
    /\ created_sections[3].level = 3
    /\ created_sections[3].parent_section = created_sections[2].section_number

(***************************************************************************)
(* txt_processor.py: SentenceSplitter and ChunkSplitter                    *)
(*                                                                         *)
(* Here a string is the sequence of its characters.  The characters used   *)
(* are "S" (an upper-case letter), "t" (a lower-case letter), " ", "." and *)
(* "H" (a character of a section header); "\n" joins a header and a text.  *)
(***************************************************************************)
MaxPieces == 4
MaxLongPieces == 3
MaxCharacterPieces == 2
MaxChunks == 40

\* "range(end, max(start, end - 100), -1)"
BOUNDARY_WINDOW == 100

Rep(c, n) == [i \in 1..n |-> c]

Whitespace == {" ", "\t", "\n"}

\* the index i of a string of n characters as a slice bound
SliceBound(n, i) ==
    IF i < 0 THEN (IF n + i < 0 THEN 0 ELSE n + i) ELSE IF i > n THEN n ELSE i

\* s[a:b], indices counted from 0
Slice(s, a, b) == SubSeq(s, SliceBound(Len(s), a) + 1, SliceBound(Len(s), b))

\* s[i], for 0 <= i < len(s)
CharAt(s, i) == s[i + 1]

RECURSIVE lstrip(_)
lstrip(s) == IF s # <<>> /\ Head(s) \in Whitespace THEN lstrip(Tail(s)) ELSE s

RECURSIVE rstrip(_)
rstrip(s) ==
    IF s # <<>> /\ s[Len(s)] \in Whitespace THEN rstrip(SubSeq(s, 1, Len(s) - 1)) ELSE s

strip(s) == rstrip(lstrip(s))

isupper(c) == c \in {"S", "H"}
isalpha(c) == c \in {"S", "H", "t"}
isdigit(c) == c \in {"0", "1", "2", "3", "4", "5", "6", "7", "8", "9"}

endswith(word, suffix) ==
    Len(suffix) <= Len(word) /\ SubSeq(word, Len(word) - Len(suffix) + 1, Len(word)) = suffix

\* the members of ABBREVIATIONS that the letters S and t can write
ABBREVIATIONS == {<<"S", "t", ".">>}

\* "while start > 0 and (text[start-1].isalpha() or text[start-1] == '.')"
RECURSIVE word_start(_, _)
word_start(text, from) ==
    IF from > 0 /\ (isalpha(CharAt(text, from - 1)) \/ CharAt(text, from - 1) = ".")
    THEN word_start(text, from - 1)
    ELSE from

is_abbreviation(text, pos) ==
    LET word == Slice(text, word_start(text, pos), pos + 1) IN
    \/ \E abbrev \in ABBREVIATIONS : endswith(word, abbrev) \/ word = abbrev
    \/ Len(word) = 2 /\ isupper(word[1]) /\ word[2] = "."

is_decimal_number(text, pos) ==
    IF pos = 0 \/ pos >= Len(text) - 1 THEN FALSE
    ELSE isdigit(CharAt(text, pos - 1)) /\ isdigit(CharAt(text, pos + 1))

\* "while j < len(text) and text[j] in ' \t\n': j += 1"
RECURSIVE skip_whitespace(_, _)
skip_whitespace(text, j) ==
    IF j < Len(text) /\ CharAt(text, j) \in Whitespace
    THEN skip_whitespace(text, j + 1)
    ELSE j

\* sentences with the stripped characters of current appended when any is left
with_sentence(sentences, current) ==
    IF strip(current) # <<>> THEN Append(sentences, strip(current)) ELSE sentences

\* the loop of split_into_sentences from index i, then "Don't forget the last
\* sentence"
RECURSIVE sentence_loop(_, _, _, _)
sentence_loop(text, i, current, sentences) ==
    IF ~(i < Len(text)) THEN with_sentence(sentences, current)
    ELSE LET char == CharAt(text, i)
             appended == Append(current, char)
         IN  IF char \notin {".", "!", "?"}
             THEN sentence_loop(text, i + 1, appended, sentences)
             ELSE IF char = "." /\ is_abbreviation(text, i)
             THEN sentence_loop(text, i + 1, appended, sentences)
             ELSE IF char = "." /\ is_decimal_number(text, i)
             THEN sentence_loop(text, i + 1, appended, sentences)
             ELSE LET j == skip_whitespace(text, i + 1) IN
                  IF j >= Len(text) \/ isupper(CharAt(text, j))
                         \/ CharAt(text, j) \in {"(", "\"", "'"}
                  THEN sentence_loop(text, j, <<>>,
                           with_sentence(sentences, appended \o Slice(text, i + 1, j)))
                  ELSE sentence_loop(text, i + 1, appended, sentences)

split_into_sentences(text) == sentence_loop(text, 0, <<>>, <<>>)

\* section_header + "\n" + text
with_header(section_header, text) == section_header \o <<"\n">> \o text

\* "available_size = max_size - header_len"
available_size(section_header, max_size) == max_size - (Len(section_header) + 1)

Larger(a, b) == IF a >= b THEN a ELSE b

\* "for i in range(end, max(start, end - 100), -1)": the first index from i
\* down to above stop that holds a space, a newline or a tab, else default
RECURSIVE word_boundary(_, _, _, _)
word_boundary(content, i, stop, default) ==
    IF i <= stop THEN default
    ELSE IF CharAt(content, i) \in Whitespace THEN i
    ELSE word_boundary(content, i - 1, stop, default)

\* one iteration of the loop of split_by_characters from the start index
\* from: the chunk appended, the next start index and whether the loop is left
loop_iteration(content, section_header, max_size, overlap_size, from) ==
    LET last == from + available_size(section_header, max_size) IN
    IF last >= Len(content)
    THEN [chunk |-> with_header(section_header, Slice(content, from, Len(content))),
          start |-> from, break |-> TRUE]
    ELSE LET boundary == word_boundary(content, last,
                                       Larger(from, last - BOUNDARY_WINDOW), last)
             overlap_start == Larger(from, boundary - overlap_size)
         IN  [chunk |-> with_header(section_header, Slice(content, from, boundary)),
              start |-> IF overlap_start > from THEN overlap_start ELSE boundary,
              break |-> FALSE]

\* the loop of split_by_characters, followed for at most MaxChunks chunks
RECURSIVE character_loop(_, _, _, _, _, _)
character_loop(content, section_header, max_size, overlap_size, from, chunks_so_far) ==
    IF ~(from < Len(content)) THEN [returned |-> TRUE, chunks |-> chunks_so_far]
    ELSE IF Len(chunks_so_far) >= MaxChunks THEN [returned |-> FALSE, chunks |-> chunks_so_far]
    ELSE LET it == loop_iteration(content, section_header, max_size, overlap_size, from) IN
         IF it.break THEN [returned |-> TRUE, chunks |-> Append(chunks_so_far, it.chunk)]
         ELSE character_loop(content, section_header, max_size, overlap_size, it.start,
                             Append(chunks_so_far, it.chunk))

\* split_by_characters as a call inside split_with_overlap
split_by_characters(content, section_header, max_size, overlap_size) ==
    IF Len(content) <= available_size(section_header, max_size)
    THEN [returned |-> TRUE, chunks |-> <<content>>]
    ELSE character_loop(content, section_header, max_size, overlap_size, 0, <<>>)

\* ' '.join(strings)
RECURSIVE join(_)
join(strings) ==
    IF strings = <<>> THEN <<>>
    ELSE IF Len(strings) = 1 THEN strings[1]
    ELSE strings[1] \o <<" ">> \o join(Tail(strings))

\* "sum(len(s) + 1 for s in current_chunk)"
RECURSIVE joined_size(_)
joined_size(strings) ==
    IF strings = <<>> THEN 0 ELSE Len(Head(strings)) + 1 + joined_size(Tail(strings))

\* "for s in reversed(current_chunk)": the last sentences of current_chunk,
\* from the k-th down, that fit in overlap_size
RECURSIVE overlap_sentences(_, _, _, _)
overlap_sentences(current_chunk, k, overlap_len, overlap_size) ==
    IF k = 0 THEN <<>>
    ELSE IF overlap_len + Len(current_chunk[k]) + 1 <= overlap_size
    THEN Append(overlap_sentences(current_chunk, k - 1,
                                  overlap_len + Len(current_chunk[k]) + 1, overlap_size),
                current_chunk[k])
    ELSE <<>>

\* chunks_so_far with the chunk of current_chunk appended when it is not empty
with_chunk(chunks_so_far, section_header, current_chunk) ==
    IF current_chunk # <<>>
    THEN Append(chunks_so_far, with_header(section_header, join(current_chunk)))
    ELSE chunks_so_far

\* the loop of split_with_overlap over the sentences from the k-th on, then
\* "Don't forget the last chunk"
RECURSIVE sentence_chunks(_, _, _, _, _, _, _, _)
sentence_chunks(sentences, k, section_header, max_size, overlap_size, chunks_so_far, current_chunk, current_size) ==
    LET header_len == Len(section_header) + 1 IN
    IF k > Len(sentences)
    THEN [returned |-> TRUE, chunks |-> with_chunk(chunks_so_far, section_header, current_chunk)]
    ELSE LET sentence == sentences[k]
             sentence_len == Len(sentence) + 1
         IN  IF sentence_len + header_len > max_size
             THEN LET saved == with_chunk(chunks_so_far, section_header, current_chunk)
                      char_chunks == split_by_characters(sentence, section_header,
                                                         max_size, overlap_size)
                  IN  IF ~char_chunks.returned THEN [returned |-> FALSE, chunks |-> saved]
                      ELSE sentence_chunks(sentences, k + 1, section_header, max_size,
                               overlap_size, saved \o char_chunks.chunks, <<>>,
                               IF current_chunk # <<>> THEN header_len ELSE current_size)
             ELSE IF current_size + sentence_len > max_size /\ current_chunk # <<>>
             THEN LET overlap == overlap_sentences(current_chunk, Len(current_chunk),
                                                   0, overlap_size)
                  IN  sentence_chunks(sentences, k + 1, section_header, max_size,
                          overlap_size,
                          with_chunk(chunks_so_far, section_header, current_chunk),
                          Append(overlap, sentence),
                          header_len + joined_size(overlap) + sentence_len)
             ELSE sentence_chunks(sentences, k + 1, section_header, max_size,
                      overlap_size, chunks_so_far, Append(current_chunk, sentence),
                      current_size + sentence_len)

\* split_with_overlap: what it returns ("returned"), or that it returns what
\* split_by_characters returns on its own arguments ("split_by_characters"),
\* or that a call of split_by_characters on a sentence made more than
\* MaxChunks chunks ("no_return")
split_with_overlap(content, section_header, max_size, overlap_size) ==
    LET header_len == Len(section_header) + 1
        sentences == split_into_sentences(content)
    IN  IF Len(content) + header_len <= max_size
        THEN [outcome |-> "returned", chunks |-> <<content>>]
        ELSE IF Len(sentences) <= 1
        THEN [outcome |-> "split_by_characters", chunks |-> <<>>]
        ELSE LET r == sentence_chunks(sentences, 1, section_header, max_size,
                                      overlap_size, <<>>, <<>>, header_len)
             IN  [outcome |-> IF r.returned THEN "returned" ELSE "no_return",
                  chunks |-> r.chunks]

\* the contents: up to MaxPieces pieces in a row
SentenceShort == <<"S", "t", "t", ".">>
SentenceLong == <<"S", "t", "t", "t", "t", ".">>
Abbreviation == <<"S", "t", ".">>
Space == <<" ">>
Word == <<"t", "t">>
LongWord == Rep("t", 110)

SmallPieces == {SentenceShort, SentenceLong, Abbreviation, Space, Word}
LongPieces == {Space, Word, LongWord}

RECURSIVE Flatten(_)
Flatten(pieces) == IF pieces = <<>> THEN <<>> ELSE Head(pieces) \o Flatten(Tail(pieces))

Contents(pieces, n) == {<<>>} \cup {Flatten(p) : p \in SeqsUpTo(pieces, n)}

SplitterCall(entry, content, section_header, max_size, overlap_size) ==
    [entry |-> entry, content |-> content, section_header |-> section_header,
     max_size |-> max_size, overlap_size |-> overlap_size]

Entries == {"split_with_overlap", "split_by_characters"}

SplitterCalls ==
    { SplitterCall(e, c, Rep("H", h), m, o) :
          e \in Entries, c \in Contents(SmallPieces, MaxPieces), h \in {1, 6},
          m \in {5, 7, 11}, o \in {0, 5} }
    \cup
    { SplitterCall(e, c, Rep("H", 1), 120, o) :
          e \in Entries, c \in Contents(LongPieces, MaxLongPieces), o \in {0, 5} }

InitSplitter ==
    /\ call \in SplitterCalls
    /\ pc = call.entry
    /\ start = 0
    /\ split_chunks = <<>>
    /\ BatchIdle
    /\ StageIdle
    /\ RechunkIdle
    /\ created_sections = <<>>
    /\ exception = None
    /\ report = None
    /\ verdict = None
    /\ runs = <<>>
    /\ ChunkerIdle
    /\ MergerIdle
    /\ DedupIdle
    /\ ParserIdle

SplitterFrame ==
    UNCHANGED <<chunkerVars, mergerVars, dedupVars, parserVars, runs, created_sections,
                exception, validatorVars, batchVars, stageVars, rechunkVars>>

\* split_with_overlap up to its return, or up to its call
\* "return ChunkSplitter.split_by_characters(content, section_header, ...)"
SplitWithOverlap ==
    /\ pc = "split_with_overlap"
    /\ LET r == split_with_overlap(call.content, call.section_header, call.max_size,
                                   call.overlap_size)
       IN  /\ pc' = r.outcome
           /\ split_chunks' = r.chunks
    /\ UNCHANGED <<call, start>>
    /\ SplitterFrame

\* split_by_characters up to its loop
SplitByCharacters ==
    /\ pc = "split_by_characters"
    /\ IF Len(call.content) <= available_size(call.section_header, call.max_size)
       THEN pc' = "returned" /\ split_chunks' = <<call.content>>
       ELSE pc' = "while" /\ split_chunks' = <<>>
    /\ start' = 0
    /\ UNCHANGED call
    /\ SplitterFrame

\* one iteration of "while start < len(content)"
LoopIteration ==
    /\ pc = "while"
    /\ start < Len(call.content)
    /\ Len(split_chunks) < MaxChunks
    /\ LET it == loop_iteration(call.content, call.section_header, call.max_size,
                                call.overlap_size, start)
       IN  /\ split_chunks' = Append(split_chunks, it.chunk)
           /\ start' = it.start
           /\ pc' = IF it.break THEN "returned" ELSE "while"
    /\ UNCHANGED call
    /\ SplitterFrame

\* the loop condition is false: "return chunks"
LoopExit ==
    /\ pc = "while"
    /\ ~(start < Len(call.content))
    /\ pc' = "returned"
    /\ UNCHANGED <<call, start, split_chunks>>
    /\ SplitterFrame

NextSplitter == SplitWithOverlap \/ SplitByCharacters \/ LoopIteration \/ LoopExit

SpecSplitter == InitSplitter /\ [][NextSplitter]_vars

\* split_by_characters alone, on contents of up to MaxCharacterPieces pieces
CharacterCalls ==
    { SplitterCall("split_by_characters", c, Rep("H", h), m, o) :
          c \in Contents(SmallPieces, MaxCharacterPieces), h \in {1, 6},
          m \in {5, 7, 11}, o \in {0, 5} }

InitCharacters ==
    /\ call \in CharacterCalls
    /\ pc = call.entry
    /\ start = 0
    /\ split_chunks = <<>>
    /\ BatchIdle
    /\ StageIdle
    /\ RechunkIdle
    /\ created_sections = <<>>
    /\ exception = None
    /\ report = None
    /\ verdict = None
    /\ runs = <<>>
    /\ ChunkerIdle
    /\ MergerIdle
    /\ DedupIdle
    /\ ParserIdle

NextCharacters == SplitByCharacters \/ LoopIteration \/ LoopExit

\* the method runs on its own thread of control: a step that can be taken is
\* taken
FairSpecCharacters == InitCharacters /\ [][NextCharacters]_vars /\ WF_vars(NextCharacters)

(***************************************************************************)
(* Properties of ChunkSplitter                                             *)
(***************************************************************************)
ReturnedBy(entry) == pc = "returned" /\ call.entry = entry

Room == available_size(call.section_header, call.max_size)

\* C25 as stated: every chunk split_with_overlap returns has at most max_size
\* characters, header and overlap sentences included.
C25_ChunksAtMostMaxSize ==
    ReturnedBy("split_with_overlap") =>
        \A i \in DOMAIN split_chunks : Len(split_chunks[i]) <= call.max_size

\* what the code keeps: a chunk exceeds max_size by less than overlap_size
C25_ChunksBelowMaxPlusOverlap ==
    ReturnedBy("split_with_overlap") =>
        \A i \in DOMAIN split_chunks :
            \/ Len(split_chunks[i]) <= call.max_size
            \/ Len(split_chunks[i]) < call.max_size + call.overlap_size

\* without overlap the limit holds
C25_AtMostMaxSizeWithoutOverlap ==
    ReturnedBy("split_with_overlap") /\ call.overlap_size = 0 =>
        \A i \in DOMAIN split_chunks : Len(split_chunks[i]) <= call.max_size

\* the failing input: "Stt. Stttt." under the header "H" with max_size 11 and
\* overlap_size 5; the second chunk is the header, the overlap sentence and the
\* new sentence, 13 characters
C25_OverlapChunkOverMaxSize ==
    /\ ReturnedBy("split_with_overlap")
    /\ call.content = SentenceShort \o Space \o SentenceLong
    /\ call.section_header = <<"H">>
    /\ call.max_size = 11
    /\ split_chunks = <<with_header(<<"H">>, SentenceShort),
                        with_header(<<"H">>, SentenceShort \o Space \o SentenceLong)>>

C29_StartStrictlyIncreases ==
    [][pc = "while" /\ pc' = "while" => start' > start]_vars

\* what the code keeps: the start index strictly increases when the header
\* leaves room for content
C29_StartIncreasesWithRoom ==
    [][pc = "while" /\ pc' = "while" /\ Room > 0 => start' > start]_vars

\* and then the call returns
C29_TerminatesWithRoom ==
    (pc = "split_by_characters" /\ Room > 0) ~> (pc = "returned")

\* only a call whose header leaves no room makes MaxChunks chunks
C29_BoundReachedOnlyWithoutRoom ==
    pc = "while" /\ Len(split_chunks) >= MaxChunks => Room <= 0

\* the failing input: the header and its newline take max_size characters;
\* chunks of the bare header pile up and the start index stays 0
C29_StartStaysZero ==
    /\ pc = "while"
    /\ call.entry = "split_by_characters"
    /\ Room = 0
    /\ start = 0
    /\ Len(split_chunks) = MaxChunks
    /\ \A i \in DOMAIN split_chunks : split_chunks[i] = with_header(call.section_header, <<>>)

\* the header is longer than max_size: the start index decreases
C29_StartDecreases ==
    /\ pc = "while"
    /\ call.entry = "split_by_characters"
    /\ Room < 0
    /\ start < 0

(***************************************************************************)
(* Properties of the chunk ids of one process_document run                 *)
(***************************************************************************)
\* C30 as stated: the chunks of one process_document run have pairwise
\* distinct chunk_id values, also when several sections of the document carry
\* the same section number.
C30_ChunkIdsDistinct ==
    \A k \in DOMAIN runs : \A i, j \in DOMAIN runs[k] :
        i # j => runs[k][i].chunk_id # runs[k][j].chunk_id

\* what the code keeps: two chunks of a run have the same chunk_id exactly
\* when they have the same section number and the same position
C30_SameIdIffSameNumberAndPosition ==
    \A k \in DOMAIN runs : \A i, j \in DOMAIN runs[k] :
        (runs[k][i].chunk_id = runs[k][j].chunk_id) <=>
            /\ runs[k][i].section_number = runs[k][j].section_number
            /\ runs[k][i].position_in_section = runs[k][j].position_in_section

\* the failing input: two subsections numbered "01", each chunked on its own
C30_TwoSubsectionsOneId ==
    /\ Len(runs) >= 1
    /\ file_content = <<H01, H01Scope, B450>>
    /\ Len(runs[1]) = 2
    /\ runs[1][1].section_number = "01"
    /\ runs[1][2].section_number = "01"
    /\ runs[1][1].content # runs[1][2].content
    /\ runs[1][1].chunk_id = runs[1][2].chunk_id

====
